---- MODULE Spec2Model ----
(***************************************************************************)
(* Model of the lead-generation conversion analyzer:                       *)
(*   backend/app/services/analyzer.py   the seven analyzers, the weighted  *)
(*                                      overall score, the issue tally     *)
(*   backend/app/services/scraper.py    fetch_page, _is_gated, the leak    *)
(*                                      extractors                         *)
(*   backend/app/api/routes.py          analyze_url and the background     *)
(*                                      enrichment task generate_ai_sync   *)
(*                                      create_lead and the two handlers   *)
(*                                      that hand out a report             *)
(*   backend/app/services/industry_detector.py   the industry detection    *)
(*                                                                         *)
(* Numbers with one decimal (weights, weighted scores, the overall score)  *)
(* are kept in tenths: the weight 1.5 is 15, the overall score 2.3 is 23.  *)
(* Python's None is the value None below; texts are TLA+ strings and the   *)
(* string operations the code uses (lower, strip, len, substring test)     *)
(* are tabulated for the sample texts the inputs are drawn from.           *)
(***************************************************************************)
EXTENDS Integers, Sequences, FiniteSets, TLC

VARIABLES
    data,        \* scraped_data handed to ConversionAnalyzer (ExtractedElements)
    result,      \* outcome of generate_analysis / of the extractor on the input
    page,        \* the parsed document the extractor walks (anchors and their ancestors)
    reports,     \* table reports: id -> Report row, or NoReport
    rows,        \* table analysis_data: set of [report_id, criterion, score]
    tasks,       \* background tasks added by analyze_url and not yet run
    nextId,      \* next primary key of table reports
    response,    \* what the last analyze_url request returned to its caller
    fetches,     \* number of client.get calls made by the last analyze_url request
    log,         \* last line each finished background task printed: [report_id, outcome]
    leads,       \* table leads: the Lead rows in the order of their ids
    now,         \* datetime.utcnow(), in hours
    issued,      \* number of tokens secrets.token_urlsafe has returned so far
    loaded       \* Report rows held by the sessions of running background tasks

vars == <<data, result, page, reports, rows, tasks, nextId, response, fetches, log,
          leads, now, issued, loaded>>

None == "<None>"

-----------------------------------------------------------------------------
(* Bounds of the model *)

MaxCtas == 3
MaxLeaks == 3
MaxForms == 2
MaxFields == 6
MaxDepth == 6
MaxReports == 2
MaxSpecial == 2
MaxTokens == 3
MaxMatches == 2
ManyMatches == 10

-----------------------------------------------------------------------------
(* Python string operations on the sample texts *)

\* str.lower()
Lower(t) ==
    CASE t = "Hem" -> "hem"
      [] t = "Välkommen till oss" -> "välkommen till oss"
      [] t = "Juridik" -> "juridik"
      [] t = "Vi dubblar er försäljning på 90 dagar" -> "vi dubblar er försäljning på 90 dagar"
      [] t = "Vi hjälper svenska e-handlare att dubbla sin konvertering med datadriven analys i år" -> "vi hjälper svenska e-handlare att dubbla sin konvertering med datadriven analys i år"
      [] t = "Welcome to the leading platform for conversion optimisation and lead generation now" -> "welcome to the leading platform for conversion optimisation and lead generation now"
      [] t = "Sälj mer!" -> "sälj mer!"
      [] t = "Sälj mera!" -> "sälj mera!"
      [] t = "Vi dubblar antalet kvalificerade leads för nordiska B2B-bolag på bara nio veckor" -> "vi dubblar antalet kvalificerade leads för nordiska b2b-bolag på bara nio veckor"
      [] t = "Vi dubblar antalet kvalificerade leads för nordiska B2B-bolag på under nio veckor" -> "vi dubblar antalet kvalificerade leads för nordiska b2b-bolag på under nio veckor"
      [] t = "Läs mer" -> "läs mer"
      [] t = "Boka demo" -> "boka demo"
      [] t = "Kontakta oss" -> "kontakta oss"
      [] t = "Boka tid" -> "boka tid"
      [] t = " Skicka " -> " skicka "
      [] t = "Ladda ner guide" -> "ladda ner guide"
      [] t = "Gratis nyhetsbrev" -> "gratis nyhetsbrev"
      [] t = "Rapport.pdf" -> "rapport.pdf"
      [] t = "Skicka" -> "skicka"
      [] t = "Boka nu" -> "boka nu"
      [] t = " SUBMIT " -> " submit "
      [] OTHER -> t

\* str.strip()
Strip(t) ==
    CASE t = " skicka " -> "skicka"
      [] t = " submit " -> "submit"
      [] OTHER -> t

\* len(str)
StrLen(t) ==
    CASE t = "" -> 0
      [] t = "Hem" -> 3
      [] t = "Välkommen till oss" -> 18
      [] t = "Juridik" -> 7
      [] t = "Vi dubblar er försäljning på 90 dagar" -> 37
      [] t = "Vi hjälper svenska e-handlare att dubbla sin konvertering med datadriven analys i år" -> 84
      [] t = "Welcome to the leading platform for conversion optimisation and lead generation now" -> 83
      [] t = "Sälj mer!" -> 9
      [] t = "Sälj mera!" -> 10
      [] t = "Vi dubblar antalet kvalificerade leads för nordiska B2B-bolag på bara nio veckor" -> 80
      [] t = "Vi dubblar antalet kvalificerade leads för nordiska B2B-bolag på under nio veckor" -> 81
      [] t = "Gratis rapport" -> 14

\* the keywords of the analyzers' and the form classifier's lists that occur as a
\* substring of a lower-cased text
KeywordsIn(t) ==
    CASE t = "hem" -> {"hem"}
      [] t = "välkommen till oss" -> {"välkommen"}
      [] t = "welcome to the leading platform for conversion optimisation and lead generation now" -> {"welcome"}
      [] t = "läs mer" -> {"läs mer"}
      [] t = "boka demo" -> {"boka", "demo"}
      [] t = "boka tid" -> {"boka"}
      [] t = "ladda ner guide" -> {"ladda"}
      [] t = "gratis nyhetsbrev" -> {"gratis", "nyhetsbrev"}
      [] t = "boka nu" -> {"boka"}
      [] t = "email" -> {"email"}
      [] t = "name" -> {"name"}
      [] t = "phone" -> {"phone"}
      [] OTHER -> {}

\* Python's  kw in text
Contains(text, kw) == kw \in KeywordsIn(text)

\* Python truthiness of an Optional[str]
Truthy(s) == s # None /\ s # ""

\* seq[:n]
Take(seq, n) == SubSeq(seq, 1, IF Len(seq) < n THEN Len(seq) ELSE n)

Max(a, b) == IF a > b THEN a ELSE b
Min(a, b) == IF a < b THEN a ELSE b

\* max(1, min(5, score))
Clamp(score) == Max(1, Min(5, score))

Problem(tag, severity) == [tag |-> tag, severity |-> severity]
Returned(score, problems) == [raised |-> FALSE, score |-> score, problems |-> problems]
Raised == [raised |-> TRUE, score |-> 0, problems |-> <<>>]
\* [p for p in problems if p["severity"] == "high"]
HighSeverity(problems) == SelectSeq(problems, LAMBDA p : p.severity = "high")

\* problems.append(p) under a condition
When(cond, p) == IF cond THEN <<p>> ELSE <<>>

-----------------------------------------------------------------------------
(* analyzer.py: the weight table *)

Criteria ==
    <<"value_proposition", "call_to_action", "social_proof", "lead_magnets",
      "form_design", "guiding_content", "offer_structure">>

\* CATEGORY_WEIGHTS, in tenths
CATEGORY_WEIGHTS(criterion) ==
    CASE criterion = "value_proposition" -> 20
      [] criterion = "call_to_action" -> 15
      [] criterion = "lead_magnets" -> 15
      [] criterion = "social_proof" -> 10
      [] criterion = "form_design" -> 10
      [] criterion = "guiding_content" -> 10
      [] criterion = "offer_structure" -> 10

RECURSIVE SumSeq(_)
SumSeq(seq) == IF seq = <<>> THEN 0 ELSE Head(seq) + SumSeq(Tail(seq))

\* TOTAL_WEIGHT = sum(CATEGORY_WEIGHTS.values()), in tenths
TOTAL_WEIGHT == SumSeq([i \in 1..Len(Criteria) |-> CATEGORY_WEIGHTS(Criteria[i])])

get_status_from_score(score) ==
    IF score <= 2 THEN "critical"
    ELSE IF score = 3 THEN "improvement"
    ELSE "good"

\* round(num / den, 1) in tenths, for num, den > 0: Python rounds to the nearest
\* tenth and an exact tie to the even one
Round1(num, den) ==
    LET q == (10 * num) \div den
        r == (10 * num) % den
    IN  IF 2 * r > den THEN q + 1
        ELSE IF 2 * r < den THEN q
        ELSE IF q % 2 = 0 THEN q ELSE q + 1

-----------------------------------------------------------------------------
(* analyzer.py: the seven analyzers *)

vague_phrases == {"välkommen", "welcome", "vi är", "we are", "hem", "home"}

IsVague(h1) == Truthy(h1) /\ \E phrase \in vague_phrases : Contains(Lower(h1), phrase)

\* analyze_value_proposition without the check of the H1 length
value_proposition_any_length(d) ==
    LET vp == d.value_proposition
        problems ==
            When(~Truthy(vp.h1) \/ IsVague(vp.h1), Problem("unclear_headline", "high"))
            \o When(~vp.has_hero, Problem("missing_usp", "medium"))
            \o When(Truthy(vp.h1) /\ ~vp.has_subheadline, Problem("features_not_benefits", "low"))
        score ==
            IF ~Truthy(vp.h1) \/ IsVague(vp.h1) THEN 1
            ELSE IF ~vp.has_hero /\ ~vp.has_subheadline THEN 2
            ELSE IF vp.has_hero /\ ~vp.has_subheadline THEN 3
            ELSE IF vp.has_hero /\ vp.has_subheadline THEN 4
            ELSE 3
    IN  Returned(IF problems = <<>> THEN 5 ELSE score, problems)

analyze_value_proposition(d) ==
    LET vp == d.value_proposition
        h1 == vp.h1
        h1_length == vp.h1_length
        has_hero == vp.has_hero
        has_subheadline == vp.has_subheadline
        problems ==
            (IF ~Truthy(h1) THEN <<Problem("unclear_headline", "high")>>
             ELSE IF h1_length < 10 THEN <<Problem("unclear_headline", "medium")>>
             ELSE IF h1_length > 80 THEN <<Problem("value_prop_too_complex", "medium")>>
             ELSE <<>>)
            \o When(IsVague(h1), Problem("unclear_headline", "high"))
            \o When(~has_hero, Problem("missing_usp", "medium"))
            \o When(Truthy(h1) /\ ~has_subheadline, Problem("features_not_benefits", "low"))
        score ==
            IF ~Truthy(h1) \/ IsVague(h1) THEN 1
            ELSE IF ~has_hero /\ ~has_subheadline THEN 2
            ELSE IF has_hero /\ (~has_subheadline \/ h1_length > 80) THEN 3
            ELSE IF has_hero /\ has_subheadline /\ h1_length <= 80 THEN 4
            ELSE 3
    IN  Returned(Clamp(IF problems = <<>> THEN 5 ELSE score), problems)

weak_texts ==
    {"läs mer", "read more", "mer info", "more info", "klicka här",
     "click here", "skicka", "submit", "send", "vidare", "continue"}

strong_patterns ==
    {"gratis", "free", "starta", "start", "prova", "try",
     "boka", "book", "få", "get", "hämta", "ladda"}

IsWeakCta(cta) ==
    LET cta_text == Strip(Lower(cta.text))
    IN  cta_text \in weak_texts \/ \E weak \in {"läs mer", "klicka"} : Contains(cta_text, weak)

\* analyze_cta with the test for strong CTAs ahead of the test for generic texts
analyze_cta_strong_first(d) ==
    LET ctas == d.cta_buttons
        generic == \E i \in 1..Len(ctas) : IsWeakCta(ctas[i])
        has_strong_cta ==
            \E i \in 1..Len(ctas) : \E p \in strong_patterns : Contains(Lower(ctas[i].text), p)
        score ==
            IF ctas = <<>> THEN 1
            ELSE IF has_strong_cta /\ Len(ctas) >= 2 THEN (IF generic THEN 4 ELSE 5)
            ELSE IF generic THEN 2
            ELSE 3
    IN  Returned(score, When(ctas = <<>> \/ generic, Problem("generic_cta_text", "high")))

analyze_cta(d) ==
    LET ctas == d.cta_buttons
        problems ==
            When(Len(ctas) = 1, Problem("single_cta_placement", "medium"))
            \o When(\E i \in 1..Len(ctas) : IsWeakCta(ctas[i]),
                    Problem("generic_cta_text", "high"))
        has_strong_cta ==
            \E i \in 1..Len(ctas) : \E p \in strong_patterns : Contains(Lower(ctas[i].text), p)
        score ==
            IF ctas = <<>> THEN 1
            ELSE IF HighSeverity(problems) # <<>> THEN 2
            ELSE IF Len(ctas) = 1 THEN 3
            ELSE IF has_strong_cta /\ Len(ctas) >= 2 THEN (IF problems # <<>> THEN 4 ELSE 5)
            ELSE 3
    IN  IF ctas = <<>> THEN Returned(1, <<Problem("no_cta_found", "high")>>)
        ELSE Returned(Clamp(score), problems)

\* the analyzer if an empty collection scored 2
social_proof_floor_two(d) ==
    IF d.social_proof = <<>> THEN Returned(2, <<Problem("no_social_proof", "high")>>)
    ELSE Returned(3, <<>>)

\* the analyzer counting testimonial and quote as two proof types
social_proof_counts_raw_types(d) ==
    LET types_found == {d.social_proof[i].type : i \in 1..Len(d.social_proof)}
        n == Cardinality(types_found)
    IN  IF d.social_proof = <<>> THEN Returned(1, <<Problem("no_social_proof", "high")>>)
        ELSE Returned(IF n = 1 THEN (IF "testimonial" \in types_found \/ "quote" \in types_found
                                      THEN 3 ELSE 2)
                      ELSE IF n = 2 THEN 4 ELSE 5, <<>>)

analyze_social_proof(d) ==
    LET proof == d.social_proof
        types_found == {proof[i].type : i \in 1..Len(proof)}
        has_testimonials == "testimonial" \in types_found \/ "quote" \in types_found
        has_logos == "client_logos" \in types_found
        has_ratings == "ratings" \in types_found
        problems ==
            When(~has_testimonials, Problem("no_testimonials", "medium"))
            \o When(~has_logos, Problem("no_client_logos", "low"))
            \o When(~has_ratings, Problem("no_quantitative_proof", "low"))
        proof_types_count ==
            (IF has_testimonials THEN 1 ELSE 0) + (IF has_logos THEN 1 ELSE 0)
            + (IF has_ratings THEN 1 ELSE 0)
        score ==
            IF proof_types_count = 0 THEN 1
            ELSE IF proof_types_count = 1 /\ ~has_testimonials THEN 2
            ELSE IF proof_types_count = 1 THEN 3
            ELSE IF proof_types_count = 2 THEN 4
            ELSE 5
    IN  IF proof = <<>> THEN Returned(1, <<Problem("no_social_proof", "high")>>)
        ELSE Returned(Clamp(score), problems)

weak_value_keywords == {"nyhetsbrev", "newsletter", "prenumerera", "subscribe"}

\* analyze_lead_magnets with has_leaks computed from the mailto links alone
lead_magnets_mailto_leaks_only(d) ==
    LET magnets == d.lead_magnets
        mailto == d.mailto_links
        gated == SelectSeq(magnets, LAMBDA m : m.is_gated)
        has_leaks == Len(mailto) > 0
        score ==
            IF magnets = <<>> /\ ~has_leaks THEN 1
            ELSE IF has_leaks /\ gated = <<>> THEN 2
            ELSE IF has_leaks THEN 3
            ELSE IF Len(gated) >= 2 THEN 5
            ELSE IF gated # <<>> THEN 4
            ELSE 3
    IN  Returned(score, <<>>)

analyze_lead_magnets(d) ==
    LET magnets == d.lead_magnets
        ungated == d.ungated_pdfs
        mailto == d.mailto_links
        gated == SelectSeq(magnets, LAMBDA m : m.is_gated)
        problems ==
            When(magnets = <<>>, Problem("no_lead_magnet", "high"))
            \o [i \in 1..Len(Take(mailto, 2)) |-> Problem("mailto_link_leak", "high")]
            \o [i \in 1..Len(Take(ungated, 2)) |-> Problem("open_pdf_leak", "high")]
            \o When(\E i \in 1..Len(magnets) :
                        \E kw \in weak_value_keywords : Contains(Lower(magnets[i].text), kw),
                    Problem("weak_lead_magnet_value", "medium"))
        has_leaks == Len(mailto) > 0 \/ Len(ungated) > 0
        has_gated_magnets == Len(gated) > 0
        score ==
            IF magnets = <<>> /\ ~has_leaks THEN 1
            ELSE IF has_leaks /\ ~has_gated_magnets THEN 2
            ELSE IF has_leaks /\ has_gated_magnets THEN 3
            ELSE IF has_gated_magnets /\ Len(gated) >= 2 THEN (IF problems # <<>> THEN 4 ELSE 5)
            ELSE IF has_gated_magnets THEN 4
            ELSE 3
    IN  Returned(Clamp(score), problems)

generic_buttons == {"submit", "skicka", "send", "ok", "continue", "vidare"}

\* [f for f in forms if f.get("type") != "search"]
LeadForms(d) == SelectSeq(d.forms, LAMBDA f : f.type # "search")

\* ', '.join([f.get('name', 'okänt') for f in fields[:5]]): the key "name" is always
\* present in a field record, so get returns its value, and str.join raises
\* TypeError on an item that is None
JoinRaises(fields) == \E i \in 1..Len(Take(fields, 5)) : fields[i].name = None

\* the loop  for form in lead_forms  of analyze_form_design, from form i on
RECURSIVE FormLoop(_, _, _)
FormLoop(lead_forms, i, acc) ==
    IF i > Len(lead_forms) THEN acc
    ELSE
        LET form == lead_forms[i]
            fields == form.fields
            submit_text == Strip(Lower(form.submit_text))
        IN  IF Len(fields) > 5
            THEN IF JoinRaises(fields)
                 THEN [acc EXCEPT !.raised = TRUE]
                 ELSE [acc EXCEPT !.has_too_many_fields = TRUE,
                                  !.problems = @ \o <<Problem("too_many_form_fields", "high")>>]
            ELSE IF submit_text \in generic_buttons
                 THEN FormLoop(lead_forms, i + 1,
                               [acc EXCEPT !.has_generic_button = TRUE,
                                           !.problems = @ \o <<Problem("generic_submit_button", "medium")>>])
                 ELSE FormLoop(lead_forms, i + 1, acc)

\* analyze_form_design looking at the first lead form only
form_design_first_form_only(d) ==
    LET lead_forms == LeadForms(d)
        loop == FormLoop(Take(lead_forms, 1), 1,
                         [raised |-> FALSE, has_generic_button |-> FALSE,
                          has_too_many_fields |-> FALSE, problems |-> <<>>])
        score ==
            IF loop.has_too_many_fields THEN 2
            ELSE IF loop.has_generic_button THEN 3
            ELSE 5
    IN  IF lead_forms = <<>> THEN Returned(1, <<Problem("no_form_found", "high")>>)
        ELSE IF loop.raised THEN Raised
        ELSE Returned(score, loop.problems)

analyze_form_design(d) ==
    LET lead_forms == LeadForms(d)
        loop == FormLoop(lead_forms, 1,
                         [raised |-> FALSE, has_generic_button |-> FALSE,
                          has_too_many_fields |-> FALSE, problems |-> <<>>])
        problems == loop.problems
        score ==
            IF loop.has_too_many_fields /\ loop.has_generic_button THEN 1
            ELSE IF loop.has_too_many_fields \/ (loop.has_generic_button /\ Len(problems) > 1) THEN 2
            ELSE IF loop.has_generic_button THEN 3
            ELSE IF problems = <<>> THEN 5
            ELSE 4
    IN  IF lead_forms = <<>> THEN Returned(1, <<Problem("no_form_found", "high")>>)
        ELSE IF loop.raised THEN Raised
        ELSE Returned(Clamp(score), problems)

\* analyze_guiding_content rewarding CTAs also where no lead form exists
guiding_content_ctas_suffice(d) ==
    LET ctas == d.cta_buttons
        lead_forms == LeadForms(d)
        score ==
            IF lead_forms = <<>> /\ ctas = <<>> THEN 1
            ELSE IF ctas = <<>> THEN 2
            ELSE IF Len(ctas) >= 3 THEN 5
            ELSE 4
    IN  Returned(score, When(lead_forms = <<>> /\ ctas = <<>>,
                             Problem("no_next_step_info", "high")))

analyze_guiding_content(d) ==
    LET ctas == d.cta_buttons
        lead_forms == LeadForms(d)
        mailto == d.mailto_links
        problems ==
            When(lead_forms = <<>> /\ ctas = <<>>, Problem("no_next_step_info", "high"))
            \o When(mailto # <<>> /\ lead_forms = <<>>, Problem("contact_info_hidden", "medium"))
            \o When(lead_forms # <<>> \/ ctas # <<>>, Problem("no_process_explanation", "low"))
        has_forms == Len(lead_forms) > 0
        has_ctas == Len(ctas) > 0
        has_multiple_ctas == Len(ctas) >= 3
        score ==
            IF ~has_forms /\ ~has_ctas THEN 1
            ELSE IF has_forms /\ ~has_ctas THEN 2
            ELSE IF has_forms /\ has_ctas THEN (IF ~has_multiple_ctas THEN 3 ELSE 4)
            ELSE 3
        adjusted ==
            IF HighSeverity(problems) = <<>> /\ has_forms /\ has_ctas
            THEN Min(5, score + 1) ELSE score
    IN  Returned(Clamp(adjusted), problems)

low_barrier_keywords ==
    {"gratis", "free", "kostnadsfri", "prova", "try", "demo", "test", "provperiod",
     "trial", "ingen bindning", "no commitment", "konsultation", "consultation"}

\* offer_data.get(key, False) on self.data.get("offer_structure", {})
OfferFlag(d, key) ==
    IF key \in DOMAIN d.offer_structure THEN d.offer_structure[key] ELSE FALSE

\* analyze_offer_structure without the final  score = min(score, 2)
offer_structure_uncapped(d) ==
    LET ctas == d.cta_buttons
        has_free_offer ==
            OfferFlag(d, "has_free_offer")
            \/ \E i \in 1..Len(ctas) :
                   \E kw \in low_barrier_keywords : Contains(Lower(ctas[i].text), kw)
        has_pricing == OfferFlag(d, "has_pricing")
        has_segmented_pricing == OfferFlag(d, "has_segmented_pricing")
        score ==
            IF ctas = <<>> /\ ~has_free_offer THEN 1
            ELSE IF ~has_free_offer /\ ~has_pricing THEN 2
            ELSE IF has_free_offer /\ ~has_pricing THEN 3
            ELSE IF has_free_offer /\ has_pricing /\ ~has_segmented_pricing THEN 4
            ELSE IF has_free_offer /\ has_pricing /\ has_segmented_pricing THEN 5
            ELSE 3
    IN  Returned(score, When(~has_free_offer, Problem("no_low_barrier_entry", "high")))

analyze_offer_structure(d) ==
    LET ctas == d.cta_buttons
        has_free_offer ==
            OfferFlag(d, "has_free_offer")
            \/ \E i \in 1..Len(ctas) :
                   \E kw \in low_barrier_keywords : Contains(Lower(ctas[i].text), kw)
        has_pricing == OfferFlag(d, "has_pricing")
        has_segmented_pricing == OfferFlag(d, "has_segmented_pricing")
        problems ==
            When(~has_free_offer, Problem("no_low_barrier_entry", "high"))
            \o When(~has_pricing, Problem("pricing_not_transparent", "medium"))
            \o When(has_pricing /\ ~has_segmented_pricing, Problem("single_offering", "low"))
        score ==
            IF ctas = <<>> /\ ~has_free_offer THEN 1
            ELSE IF ~has_free_offer /\ ~has_pricing THEN 2
            ELSE IF has_free_offer /\ ~has_pricing THEN 3
            ELSE IF has_free_offer /\ has_pricing /\ ~has_segmented_pricing THEN 4
            ELSE IF has_free_offer /\ has_pricing /\ has_segmented_pricing THEN 5
            ELSE 3
        capped == IF HighSeverity(problems) # <<>> THEN Min(score, 2) ELSE score
    IN  Returned(Clamp(capped), problems)

-----------------------------------------------------------------------------
(* analyzer.py: leaking funnels, the issue tally, the complete analysis *)

\* the projection with the PDF entries first
leaking_funnels_pdfs_first(d) ==
    [i \in 1..Len(d.ungated_pdfs) |->
        [type |-> "open_pdf_leak", severity |-> "high",
         details |-> d.ungated_pdfs[i].url]]
    \o [i \in 1..Len(d.mailto_links) |->
        [type |-> "mailto_link_leak", severity |-> "high",
         details |-> d.mailto_links[i].email]]

generate_leaking_funnels(d) ==
    [i \in 1..Len(d.mailto_links) |->
        [type |-> "mailto_link_leak", severity |-> "high",
         details |-> d.mailto_links[i].email]]
    \o [i \in 1..Len(d.ungated_pdfs) |->
        [type |-> "open_pdf_leak", severity |-> "high",
         details |-> d.ungated_pdfs[i].url]]

\* the tally if a search form counted as a lead-capture form
count_issues_any_form(d) ==
    Len(d.mailto_links)
    + Len(d.ungated_pdfs)
    + (IF d.forms = <<>> THEN 1 ELSE 0)
    + (IF d.lead_magnets = <<>> THEN 1 ELSE 0)
    + (IF d.social_proof = <<>> THEN 1 ELSE 0)
    + (IF d.cta_buttons = <<>> THEN 1 ELSE 0)
    + (IF ~Truthy(d.value_proposition.h1) THEN 1 ELSE 0)

count_issues(d) ==
    Len(d.mailto_links)
    + Len(d.ungated_pdfs)
    + (IF LeadForms(d) = <<>> THEN 1 ELSE 0)
    + (IF d.lead_magnets = <<>> THEN 1 ELSE 0)
    + (IF d.social_proof = <<>> THEN 1 ELSE 0)
    + (IF d.cta_buttons = <<>> THEN 1 ELSE 0)
    + (IF ~Truthy(d.value_proposition.h1) THEN 1 ELSE 0)

\* the messages with the missing lead magnets named first
logical_errors_missing_first(d) ==
    Take(When(d.lead_magnets = <<>>, "no_lead_magnets")
         \o When(d.mailto_links # <<>>, "mailto_links")
         \o When(d.ungated_pdfs # <<>>, "ungated_pdfs")
         \o When(d.social_proof = <<>>, "no_social_proof")
         \o When(LeadForms(d) = <<>>, "no_lead_forms")
         \o When(~Truthy(d.value_proposition.h1), "no_h1"), 5)

generate_logical_errors(d) ==
    Take(When(d.mailto_links # <<>>, "mailto_links")
         \o When(d.ungated_pdfs # <<>>, "ungated_pdfs")
         \o When(d.lead_magnets = <<>>, "no_lead_magnets")
         \o When(d.social_proof = <<>>, "no_social_proof")
         \o When(LeadForms(d) = <<>>, "no_lead_forms")
         \o When(~Truthy(d.value_proposition.h1), "no_h1"), 5)

\* analysis_methods, in the order generate_analysis calls them
Analyze(criterion, d) ==
    CASE criterion = "value_proposition" -> analyze_value_proposition(d)
      [] criterion = "call_to_action" -> analyze_cta(d)
      [] criterion = "social_proof" -> analyze_social_proof(d)
      [] criterion = "lead_magnets" -> analyze_lead_magnets(d)
      [] criterion = "form_design" -> analyze_form_design(d)
      [] criterion = "guiding_content" -> analyze_guiding_content(d)
      [] criterion = "offer_structure" -> analyze_offer_structure(d)

\* one entry of criteria_analysis
CriterionRecord(criterion, res) ==
    [criterion |-> criterion,
     score |-> res.score,
     weight |-> CATEGORY_WEIGHTS(criterion),
     weighted_score |-> res.score * CATEGORY_WEIGHTS(criterion),
     status |-> get_status_from_score(res.score),
     problems |-> res.problems]

generate_analysis(d) ==
    LET results == [i \in 1..Len(Criteria) |-> Analyze(Criteria[i], d)]
        criteria_analysis ==
            [i \in 1..Len(Criteria) |-> CriterionRecord(Criteria[i], results[i])]
        weighted_sum == SumSeq([i \in 1..Len(Criteria) |-> criteria_analysis[i].weighted_score])
    IN  IF \E i \in 1..Len(Criteria) : results[i].raised
        THEN [raised |-> TRUE]
        ELSE [raised |-> FALSE,
              criteria_analysis |-> criteria_analysis,
              overall_score |-> Round1(weighted_sum, TOTAL_WEIGHT),
              issues_found |-> count_issues(d),
              logical_errors |-> generate_logical_errors(d),
              leaking_funnels |-> generate_leaking_funnels(d)]

-----------------------------------------------------------------------------
(* scraper.py: what extract_forms and extract_value_proposition record *)

\* the classification of a form from its non-hidden fields (name None: no name attribute)
ClassifyForm(fields, search_class) ==
    LET NameOf(f) == IF f.name = None THEN "" ELSE Lower(f.name)
        has_email_field ==
            \E i \in 1..Len(fields) : fields[i].type = "email" \/ Contains(NameOf(fields[i]), "email")
        has_name_field ==
            \E i \in 1..Len(fields) :
                Contains(NameOf(fields[i]), "name") \/ Contains(NameOf(fields[i]), "namn")
        has_phone_field ==
            \E i \in 1..Len(fields) :
                \/ Contains(NameOf(fields[i]), "phone")
                \/ Contains(NameOf(fields[i]), "telefon")
                \/ Contains(NameOf(fields[i]), "tel")
    IN  IF has_email_field /\ ~has_phone_field THEN "newsletter"
        ELSE IF has_email_field /\ has_name_field
             THEN (IF Len(fields) > 4 THEN "contact" ELSE "lead_capture")
        ELSE IF search_class THEN "search"
        ELSE "unknown"

FormRecord(fields, submit_text, search_class) ==
    [type |-> ClassifyForm(fields, search_class),
     fields |-> fields,
     submit_text |-> submit_text]

\* result of extract_value_proposition for a first <h1> with text h1 (None: no <h1>)
ValueProposition(h1, has_hero, has_subheadline) ==
    [h1 |-> h1,
     h1_length |-> IF h1 = None THEN 0 ELSE StrLen(h1),
     has_hero |-> has_hero,
     has_subheadline |-> h1 # None /\ has_subheadline]

-----------------------------------------------------------------------------
(* The ExtractedElements the analyzers are run on *)

H1Samples ==
    {None, "", "Hem", "Välkommen till oss", "Juridik",
     "Vi dubblar er försäljning på 90 dagar", "Sälj mer!", "Sälj mera!",
     "Vi dubblar antalet kvalificerade leads för nordiska B2B-bolag på bara nio veckor",
     "Vi dubblar antalet kvalificerade leads för nordiska B2B-bolag på under nio veckor",
     "Vi hjälper svenska e-handlare att dubbla sin konvertering med datadriven analys i år",
     "Welcome to the leading platform for conversion optimisation and lead generation now"}

VPSamples ==
    {ValueProposition(h1, hero, sub) : h1 \in H1Samples, hero \in BOOLEAN, sub \in BOOLEAN}

CtaTexts == {"Läs mer", "Boka demo", "Kontakta oss", "Boka tid", " Skicka "}

SeqsUpTo(S, n) == UNION {[1..k -> S] : k \in 0..n}

CtaSamples == SeqsUpTo({[text |-> t] : t \in CtaTexts}, MaxCtas)

ProofTypes == <<"testimonial", "quote", "client_logos", "ratings">>

\* social_proof lists its entries in the order of ProofTypes
RECURSIVE ProofSeq(_, _)
ProofSeq(types, i) ==
    IF i > Len(ProofTypes) THEN <<>>
    ELSE When(ProofTypes[i] \in types, [type |-> ProofTypes[i]]) \o ProofSeq(types, i + 1)

\* every set of proof types, and two lists with repeated entries
ProofSamples ==
    {ProofSeq(types, 1) : types \in SUBSET {ProofTypes[i] : i \in 1..Len(ProofTypes)}}
    \cup {<<[type |-> "quote"], [type |-> "quote"]>>,
          <<[type |-> "ratings"], [type |-> "testimonial"], [type |-> "testimonial"]>>}

Emails == <<"a@ex.se", "b@ex.se", "c@ex.se", "d@ex.se">>
PdfUrls == <<"/a.pdf", "/b.pdf", "/c.pdf", "/d.pdf">>

Mailtos(n) == [i \in 1..n |-> [email |-> Emails[i]]]
UngatedPdfs(n) == [i \in 1..n |-> [url |-> PdfUrls[i], text |-> "Rapport.pdf"]]
\* every anchor extract_ungated_pdfs lists is listed by extract_lead_magnets too
PdfMagnets(n) ==
    [i \in 1..n |-> [text |-> "Rapport.pdf", url |-> PdfUrls[i], type |-> "pdf", is_gated |-> FALSE]]

Magnet(text, type, is_gated) == [text |-> text, url |-> "/resurs", type |-> type, is_gated |-> is_gated]

OtherMagnetSamples ==
    {<<>>,
     <<Magnet("Ladda ner guide", "ladda ner", TRUE)>>,
     <<Magnet("Ladda ner guide", "ladda ner", FALSE)>>,
     <<Magnet("Gratis nyhetsbrev", "gratis", TRUE)>>,
     <<Magnet("Ladda ner guide", "ladda ner", TRUE), Magnet("Rapport.pdf", "pdf", TRUE)>>,
     <<Magnet("Ladda ner guide", "ladda ner", TRUE), Magnet("Gratis nyhetsbrev", "gratis", TRUE)>>}

\* the three link-derived collections of one page
LinkSamples ==
    {[mailto_links |-> Mailtos(m), ungated_pdfs |-> UngatedPdfs(u),
      lead_magnets |-> other \o PdfMagnets(u)] :
        m \in 0..MaxLeaks, u \in 0..MaxLeaks, other \in OtherMagnetSamples}

FieldTemplate ==
    <<[type |-> "email", name |-> "email"], [type |-> "text", name |-> "name"],
      [type |-> "tel", name |-> "phone"], [type |-> "text", name |-> "company"],
      [type |-> "textarea", name |-> "message"], [type |-> "select", name |-> "role"],
      [type |-> "text", name |-> "budget"], [type |-> "text", name |-> "city"]>>

\* the first n fields of the template, field number unnamed (if any) without a name attribute
Fields(n, unnamed) ==
    [i \in 1..n |-> IF i = unnamed THEN [FieldTemplate[i] EXCEPT !.name = None]
                    ELSE FieldTemplate[i]]

SubmitTexts == {"", "Skicka", "Boka nu", " SUBMIT "}

SearchForm == FormRecord(<<[type |-> "search", name |-> "q"]>>, "", TRUE)

SingleForms ==
    {FormRecord(Fields(n, unnamed), submit, FALSE) :
        n \in 0..MaxFields, unnamed \in {0, 3, 6}, submit \in SubmitTexts}
    \cup {SearchForm}

FormSamples ==
    {SearchForm,
     FormRecord(Fields(3, 0), "Boka nu", FALSE),
     FormRecord(Fields(3, 0), "Skicka", FALSE),
     FormRecord(Fields(6, 6), "Boka nu", FALSE),
     FormRecord(Fields(6, 3), "Skicka", FALSE)}

FormsSamples == {<<f>> : f \in SingleForms} \cup SeqsUpTo(FormSamples, MaxForms)

\* offer_structure is a dict the scraper never fills; the analyzer reads three flags of it
OfferSamples ==
    {<<>>} \cup
    {[has_free_offer |-> f, has_pricing |-> p, has_segmented_pricing |-> s] :
        f \in BOOLEAN, p \in BOOLEAN, s \in BOOLEAN}

Elements(vp, ctas, proof, links, forms, offer) ==
    [value_proposition |-> vp, cta_buttons |-> ctas, social_proof |-> proof,
     lead_magnets |-> links.lead_magnets, mailto_links |-> links.mailto_links,
     ungated_pdfs |-> links.ungated_pdfs, forms |-> forms, offer_structure |-> offer]

NoLinks == [mailto_links |-> <<>>, ungated_pdfs |-> <<>>, lead_magnets |-> <<>>]

\* a page on which nothing is detected, and a page with every element in place
EmptyPage == Elements(ValueProposition(None, FALSE, FALSE), <<>>, <<>>, NoLinks, <<>>, <<>>)

RichPage ==
    Elements(ValueProposition("Vi dubblar er försäljning på 90 dagar", TRUE, TRUE),
             <<[text |-> "Boka demo"], [text |-> "Boka tid"], [text |-> "Kontakta oss"]>>,
             ProofSeq({"testimonial", "client_logos", "ratings"}, 1),
             [NoLinks EXCEPT !.lead_magnets =
                 <<Magnet("Ladda ner guide", "ladda ner", TRUE), Magnet("Rapport.pdf", "pdf", TRUE)>>],
             <<FormRecord(Fields(3, 0), "Boka nu", FALSE)>>,
             <<>>)

Backgrounds == {EmptyPage, RichPage}

\* every sample of one collection on each background, and a coarse product of all
ElementsSamples ==
    {[b EXCEPT !.value_proposition = vp] : b \in Backgrounds, vp \in VPSamples}
    \cup {[b EXCEPT !.cta_buttons = c] : b \in Backgrounds, c \in CtaSamples}
    \cup {[b EXCEPT !.cta_buttons = c, !.offer_structure = o] :
            b \in Backgrounds, c \in SeqsUpTo({[text |-> "Boka demo"], [text |-> "Kontakta oss"]}, 1),
            o \in OfferSamples}
    \cup {[b EXCEPT !.social_proof = sp] : b \in Backgrounds, sp \in ProofSamples}
    \cup {[b EXCEPT !.lead_magnets = l.lead_magnets, !.mailto_links = l.mailto_links,
                    !.ungated_pdfs = l.ungated_pdfs] : b \in Backgrounds, l \in LinkSamples}
    \cup {[b EXCEPT !.forms = f] : b \in Backgrounds, f \in FormsSamples}
    \cup {Elements(vp, c, sp, l, f, <<>>) :
            vp \in {ValueProposition(None, FALSE, FALSE), ValueProposition("Hem", TRUE, TRUE),
                    ValueProposition("Vi dubblar er försäljning på 90 dagar", TRUE, TRUE)},
            c \in SeqsUpTo({[text |-> "Boka demo"]}, 2),
            sp \in {<<>>, ProofSeq({"quote"}, 1)},
            l \in {ls \in LinkSamples : Len(ls.mailto_links) # 1 /\ Len(ls.lead_magnets) <= 2},
            f \in SeqsUpTo({SearchForm, FormRecord(Fields(3, 0), "Boka nu", FALSE)}, 1)}

-----------------------------------------------------------------------------
(* Running the scoring engine on one ExtractedElements record *)

NoResult == [kind |-> "none"]
NoPage == [ancestors |-> <<>>, anchors |-> <<>>]
NoReport == [exists |-> FALSE]
NoResponse == [kind |-> "none"]

IdleStore ==
    /\ reports = [id \in 1..MaxReports |-> NoReport]
    /\ rows = {}
    /\ tasks = {}
    /\ nextId = 1
    /\ response = NoResponse
    /\ fetches = 0
    /\ log = {}
    /\ leads = <<>>
    /\ now = 0
    /\ issued = 0
    /\ loaded = {}

InitScoring ==
    /\ data \in ElementsSamples
    /\ result = NoResult
    /\ page = NoPage
    /\ IdleStore

\* the list  lines  of generate_summary_assessment before it is joined with blank
\* lines; each line is named by the branch that appended it
generate_summary_assessment(d) ==
    LET issues == count_issues(d)
    IN  <<IF issues > 5 THEN "serious_flaws"
          ELSE IF issues > 2 THEN "several_improvements" ELSE "basic_structure">>
        \o <<IF d.mailto_links # <<>> THEN "mailto_exposed" ELSE "no_mailto">>
        \o (IF d.lead_magnets = <<>> THEN <<"no_lead_magnets">>
            ELSE IF d.ungated_pdfs # <<>> THEN <<"pdfs_given_away">>
            ELSE <<>>)
        \o <<IF LeadForms(d) = <<>> THEN "no_forms" ELSE "forms_in_place">>
        \o <<IF d.social_proof = <<>> THEN "no_social_proof" ELSE "social_proof_present">>
        \o <<"reality", "cost", "path_forward">>

\* analyzer = ConversionAnalyzer(scraped_data); analysis = analyzer.generate_analysis(),
\* and the summary analyze_url asks the analyzer for when the analysis returned
RunAnalysis ==
    /\ result = NoResult
    /\ result' = [kind |-> "analysis", analysis |-> generate_analysis(data),
                  summary_assessment |->
                      IF generate_analysis(data).raised THEN <<>>
                      ELSE generate_summary_assessment(data)]
    /\ UNCHANGED <<data, page, reports, rows, tasks, nextId, response, fetches, log,
                 leads, now, issued, loaded>>

NextScoring == RunAnalysis

SpecScoring == InitScoring /\ [][NextScoring]_vars

-----------------------------------------------------------------------------
(* routes.py, generate_ai_sync: merging the enrichment result into a report *)

\* A JSON value the enrichment result can hold for a criterion: t is its JSON type,
\* v the number (a float in tenths) or the text
JInt(n) == [t |-> "int", v |-> n]
JFloat(tenths) == [t |-> "float", v |-> tenths]
JStr(txt) == [t |-> "str", v |-> txt]
JNull == [t |-> "null"]
JList == [t |-> "list"]
JInfinity == [t |-> "infinity"]
JBool(b) == [t |-> "bool", v |-> b]

\* int(x): the integer, or the exception int raises on x
PyInt(x) ==
    CASE x.t = "int" -> [exc |-> "none", v |-> x.v]
      [] x.t = "float" ->
            \* truncation toward zero
            [exc |-> "none", v |-> IF x.v >= 0 THEN x.v \div 10 ELSE -((-x.v) \div 10)]
      [] x.t = "str" ->
            CASE x.v = "4" -> [exc |-> "none", v |-> 4]
              [] x.v = "12" -> [exc |-> "none", v |-> 12]
              [] OTHER -> [exc |-> "ValueError", v |-> 0]
      [] x.t = "bool" -> [exc |-> "none", v |-> IF x.v THEN 1 ELSE 0]
      [] x.t = "infinity" -> [exc |-> "OverflowError", v |-> 0]
      [] OTHER -> [exc |-> "TypeError", v |-> 0]

\* score_map[key]: adjusted_scores.get(key) for the seven keys, None for a missing key
ScoreMapGet(adjusted_scores, key) ==
    IF key \in DOMAIN adjusted_scores THEN adjusted_scores[key] ELSE JNull

\* the loop body if it dropped every value that is no integer of 1..5
AdjustOnlyInRange(criterion, adjusted_scores) ==
    LET x == ScoreMapGet(adjusted_scores, criterion.criterion)
    IN  IF x.t = "int" /\ x.v \in 1..5 THEN [criterion EXCEPT !.score = x.v] ELSE criterion

\* the body of  for i, criterion in enumerate(criteria_analysis)  for one criterion:
\* only the key "score" of the copied record is assigned
AdjustCriterion(criterion, adjusted_scores) ==
    LET x == ScoreMapGet(adjusted_scores, criterion.criterion)
    IN  IF x.t = "null" THEN criterion
        ELSE IF PyInt(x).exc \in {"ValueError", "TypeError"} THEN criterion
        ELSE [criterion EXCEPT !.score = Max(1, Min(5, PyInt(x).v))]

\* an exception the loop does not catch leaves _generate through its outer handler
AdjustRaises(criteria_analysis, adjusted_scores) ==
    \E i \in 1..Len(criteria_analysis) :
        LET x == ScoreMapGet(adjusted_scores, criteria_analysis[i].criterion)
        IN  x.t # "null" /\ PyInt(x).exc = "OverflowError"

\* the dict weights of generate_ai_sync, in tenths; weights.get(key, 1.0)
weights(criterion) ==
    CASE criterion = "value_proposition" -> 20
      [] criterion = "call_to_action" -> 15
      [] criterion = "lead_magnets" -> 15
      [] criterion = "social_proof" -> 10
      [] criterion = "form_design" -> 10
      [] criterion = "guiding_content" -> 10
      [] criterion = "offer_structure" -> 10
      [] OTHER -> 10

\* the recalculation as a plain mean of the seven scores
RecalculateUnweighted(criteria_analysis) ==
    Round1(SumSeq([i \in 1..Len(criteria_analysis) |-> criteria_analysis[i].score]),
           Len(criteria_analysis))

\* round(weighted_sum / total_weight, 1) over the adjusted criteria
RecalculateOverall(criteria_analysis) ==
    LET total_weight == SumSeq([i \in 1..Len(Criteria) |-> weights(Criteria[i])])
        weighted_sum ==
            SumSeq([i \in 1..Len(criteria_analysis) |->
                        criteria_analysis[i].score * weights(criteria_analysis[i].criterion)])
    IN  Round1(weighted_sum, total_weight)

\* the merge if a criterion missing from adjusted_scores fell back to 3
MergeWithDefaultScores(report, sections) ==
    LET defaulted == [i \in 1..Len(Criteria) |->
                        IF Criteria[i] \in DOMAIN sections.adjusted_scores
                        THEN sections.adjusted_scores[Criteria[i]] ELSE JInt(3)]
        criteria_analysis ==
            [i \in 1..Len(report.full_report.criteria_analysis) |->
                [report.full_report.criteria_analysis[i] EXCEPT
                    !.score = Max(1, Min(5, PyInt(defaulted[i]).v))]]
    IN  [report EXCEPT !.full_report.narrative = sections.text,
                       !.full_report.criteria_analysis = criteria_analysis,
                       !.overall_score = RecalculateOverall(criteria_analysis),
                       !.full_report.ai_generated = TRUE]

\* The report as _generate commits it. sections is the dict generate_enhanced_report
\* returned: text marks where its narrative came from, adjusted_scores is the value of
\* that key (the empty dict when the key is missing), adjusted_type its JSON type.
MergeSections(report, sections) ==
    LET full_report == report.full_report
        adjusted_scores == sections.adjusted_scores
        apply == DOMAIN adjusted_scores # {} /\ full_report.criteria_analysis # <<>>
        criteria_analysis ==
            [i \in 1..Len(full_report.criteria_analysis) |->
                AdjustCriterion(full_report.criteria_analysis[i], adjusted_scores)]
        new_overall == RecalculateOverall(criteria_analysis)
    IN  IF apply
        THEN [report EXCEPT !.full_report.narrative = sections.text,
                            !.full_report.criteria_analysis = criteria_analysis,
                            !.full_report.overall_score = {new_overall},
                            !.overall_score = new_overall,
                            !.full_report.ai_generated = TRUE]
        ELSE [report EXCEPT !.full_report.narrative = sections.text,
                            !.full_report.ai_generated = TRUE]

\* whether the merge raises before db.commit(): .get on an adjusted_scores that is no
\* dict (AttributeError), or an exception of int() the inner handler does not catch
MergeRaises(report, sections) ==
    \/ sections.adjusted_type # "dict"
    \/ /\ DOMAIN sections.adjusted_scores # {}
       /\ report.full_report.criteria_analysis # <<>>
       /\ AdjustRaises(report.full_report.criteria_analysis, sections.adjusted_scores)

-----------------------------------------------------------------------------
(* scraper.py fetch_page and routes.py analyze_url *)

MAX_PAGE_SIZE == 5000000

\* What client.get meets: transport is "ok" when a final response arrived, with its
\* status code and the length of its body
FetchOutcomes ==
    {[transport |-> tr, status_code |-> 200, content_length |-> 1000] :
        tr \in {"network_error", "timeout"}}
    \cup {[transport |-> "ok", status_code |-> st, content_length |-> 1000] :
            st \in {304, 404}}
    \cup {[transport |-> "ok", status_code |-> 200, content_length |-> len] :
            len \in {MAX_PAGE_SIZE, MAX_PAGE_SIZE + 1}}

\* fetch_page without its size check
FetchRaisesUnlessOversized(o) ==
    \/ o.transport # "ok"
    \/ ~(o.status_code >= 200 /\ o.status_code <= 299)

\* fetch_page raises: client.get raises, raise_for_status raises on a final status
\* that is no success, or the body is larger than MAX_PAGE_SIZE
FetchRaises(o) ==
    \/ o.transport # "ok"
    \/ ~(o.status_code >= 200 /\ o.status_code <= 299)
    \/ o.content_length > MAX_PAGE_SIZE

\* the number of client.get calls of one fetch_page call
FetchAttempts(o) == 1

\* the ExtractedElements scrape_and_analyze hands to analyze_url in the store's runs:
\* a page with nothing on it, a page with everything, and a page with a form of six
\* fields whose third input has no name attribute
RaisingPage == [EmptyPage EXCEPT !.forms = <<FormRecord(Fields(6, 3), "Skicka", FALSE)>>]

StorePages == {EmptyPage, RichPage, RaisingPage}

\* analyzer.generate_analysis() on each of these pages
StoreAnalysis == [d \in StorePages |-> generate_analysis(d)]

\* a request: what its fetch meets and what the extractors find in the response; a
\* response that fetch_page rejects is never parsed, its content plays no part
Requests ==
    {q \in FetchOutcomes \X StorePages : FetchRaises(q[1]) => q[2] = EmptyPage}

\* the Report row and its full_report as analyze_url builds them; full_report has
\* no key overall_score yet (the set is empty); lead_id (0 for NULL) and access_token
\* are not set, created_at takes its default datetime.utcnow
NewReport(d, analysis) ==
    [exists |-> TRUE,
     url |-> "https://example.se/sida/",
     short_summary |-> SubSeq(analysis.logical_errors, 1, Min(3, Len(analysis.logical_errors))),
     full_report |->
        [scraped_data |-> d,
         criteria_analysis |-> analysis.criteria_analysis,
         leaking_funnels |-> analysis.leaking_funnels,
         narrative |-> "",
         overall_score |-> {},
         ai_generated |-> FALSE],
     overall_score |-> analysis.overall_score,
     issues_found |-> analysis.issues_found,
     lead_id |-> 0,
     access_token |-> None,
     created_at |-> now]

\* the AnalysisData rows analyze_url adds for a report
NewRows(id, analysis) ==
    {[report_id |-> id,
      criterion |-> analysis.criteria_analysis[i].criterion,
      score |-> analysis.criteria_analysis[i].score] : i \in 1..Len(analysis.criteria_analysis)}

ErrorResponse(cause) == [kind |-> "error", status_code |-> 400, cause |-> cause]

\* analyze_url scheduling the task and answering without having stored the
\* AnalysisData rows
analyze_url_rows_unsaved(o, d) ==
    LET analysis == StoreAnalysis[d]
    IN  /\ fetches' = FetchAttempts(o)
        /\ IF FetchRaises(o) \/ analysis.raised
           THEN /\ response' = ErrorResponse(IF FetchRaises(o) THEN "fetch" ELSE "analysis")
                /\ UNCHANGED <<reports, rows, tasks, nextId>>
           ELSE /\ nextId <= MaxReports
                /\ reports' = [reports EXCEPT ![nextId] = NewReport(d, analysis)]
                /\ tasks' = tasks \cup {[report_id |-> nextId]}
                /\ nextId' = nextId + 1
                /\ response' = [kind |-> "summary", report_id |-> nextId,
                                overall_score |-> analysis.overall_score,
                                issues_count |-> analysis.issues_found]
                /\ UNCHANGED rows
        /\ UNCHANGED <<data, result, page, log,
                 leads, now, issued, loaded>>

\* POST /analyze for a page whose fetch meets o and whose extraction yields d
analyze_url(o, d) ==
    LET analysis == StoreAnalysis[d]
    IN  /\ fetches' = FetchAttempts(o)
        /\ IF FetchRaises(o)
           THEN /\ response' = ErrorResponse("fetch")
                /\ UNCHANGED <<reports, rows, tasks, nextId>>
           ELSE IF analysis.raised
           THEN /\ response' = ErrorResponse("analysis")
                /\ UNCHANGED <<reports, rows, tasks, nextId>>
           ELSE /\ nextId <= MaxReports
                /\ reports' = [reports EXCEPT ![nextId] = NewReport(d, analysis)]
                /\ rows' = rows \cup NewRows(nextId, analysis)
                /\ tasks' = tasks \cup {[report_id |-> nextId]}
                /\ nextId' = nextId + 1
                /\ response' = [kind |-> "summary", report_id |-> nextId,
                                overall_score |-> analysis.overall_score,
                                issues_count |-> analysis.issues_found]
        /\ UNCHANGED <<data, result, page, log,
                 leads, now, issued, loaded>>

-----------------------------------------------------------------------------
(* routes.py generate_ai_sync: the background task *)

Dict(keys, value) == [k \in keys |-> value]

AdjustedValues ==
    {JInt(0), JInt(1), JInt(9), JFloat(47), JStr("abc"), JStr("4"),
     JBool(TRUE), JNull, JList, JInfinity}

AdjustedSamples ==
    {Dict({}, JNull)}
    \cup {Dict({"value_proposition"}, x) : x \in AdjustedValues}
    \cup {Dict({Criteria[i] : i \in 1..Len(Criteria)}, JInt(3)),
          [value_proposition |-> JInt(1), call_to_action |-> JStr("abc"),
           lead_magnets |-> JInt(7)]}

\* what awaiting generate_enhanced_report gives: an exception, the static templates
\* (no adjusted_scores), or the parsed JSON of the AI
EnrichOutcomes ==
    {[raised |-> TRUE],
     [raised |-> FALSE, text |-> "template", adjusted_type |-> "dict",
      adjusted_scores |-> Dict({}, JNull)],
     [raised |-> FALSE, text |-> "ai", adjusted_type |-> "list",
      adjusted_scores |-> Dict({}, JNull)]}
    \cup {[raised |-> FALSE, text |-> "ai", adjusted_type |-> "dict", adjusted_scores |-> a] :
            a \in AdjustedSamples}

\* the last line _generate prints for a task: "complete" after its commit, "failed"
\* in its exception handler, "skipped" when it found no report to update
TaskOutcome(report, e) ==
    IF e.raised THEN "failed"
    ELSE IF ~report.exists THEN "skipped"
    ELSE IF MergeRaises(report, e) THEN "failed"
    ELSE "complete"

\* the same task with the handler's failure path still marking the report
generate_ai_sync_marking(t, e) ==
    LET report == reports[t.report_id]
    IN  /\ t \in tasks
        /\ tasks' = tasks \ {t}
        /\ log' = log \cup {[report_id |-> t.report_id, outcome |-> TaskOutcome(report, e)]}
        /\ reports' =
              IF ~report.exists THEN reports
              ELSE IF e.raised \/ MergeRaises(report, e)
              THEN [reports EXCEPT ![t.report_id].full_report.ai_generated = TRUE]
              ELSE [reports EXCEPT ![t.report_id] = MergeSections(report, e)]
        /\ UNCHANGED <<data, result, page, rows, nextId, response, fetches,
                 leads, now, issued, loaded>>

\* _generate for task t when the enrichment call (with the prints that follow it,
\* inside the same try) ends as e
generate_ai_sync(t, e) ==
    LET report == reports[t.report_id]
    IN  /\ t \in tasks
        /\ tasks' = tasks \ {t}
        /\ log' = log \cup {[report_id |-> t.report_id, outcome |-> TaskOutcome(report, e)]}
        /\ reports' =
              IF TaskOutcome(report, e) = "complete"
              THEN [reports EXCEPT ![t.report_id] = MergeSections(report, e)]
              ELSE reports
        /\ UNCHANGED <<data, result, page, rows, nextId, response, fetches,
                 leads, now, issued, loaded>>

\* a report row (and, by the cascade, its analysis_data rows) removed from the
\* database by something other than this program
ExternalDelete(id) ==
    /\ reports[id].exists
    /\ reports' = [reports EXCEPT ![id] = NoReport]
    /\ rows' = {r \in rows : r.report_id # id}
    /\ UNCHANGED <<data, result, page, tasks, nextId, response, fetches, log,
                 leads, now, issued, loaded>>

Init ==
    /\ data = EmptyPage
    /\ result = NoResult
    /\ page = NoPage
    /\ IdleStore

Next ==
    \/ \E q \in Requests : analyze_url(q[1], q[2])
    \/ \E t \in tasks, e \in EnrichOutcomes : generate_ai_sync(t, e)
    \/ \E id \in 1..MaxReports : ExternalDelete(id)

Spec == Init /\ [][Next]_vars

\* background_tasks.add_task: Starlette runs every task it was given once the response
\* has been sent, so a task that stays scheduled is eventually run
SpecFair ==
    Spec /\ \A id \in 1..MaxReports :
                WF_vars(\E e \in EnrichOutcomes : generate_ai_sync([report_id |-> id], e))

-----------------------------------------------------------------------------
(* routes.py create_lead, get_full_report, download_report_pdf: access to a report *)

REPORT_ACCESS_TOKEN_EXPIRE_HOURS == 72

\* the hours at which datetime.utcnow() is read
ClockSamples == {0, 72, 73}

\* lead_data.email of the submitted forms; the forms submitted while background
\* tasks run all carry the first address
EnrichEmails == {"anna@example.se"}

LeadEmails == EnrichEmails \cup {"bo@example.se"}

\* secrets.token_urlsafe(32): a value that no earlier call has returned
token_urlsafe == ToString(issued + 1)

\* the query parameter token of a request: absent, empty, or a token value
TokenSamples == {None, ""} \cup {ToString(i) : i \in 1..MaxTokens}

NotFound == [kind |-> "error", status_code |-> 404, cause |-> "Rapport hittades inte"]

Forbidden(cause) == [kind |-> "error", status_code |-> 403, cause |-> cause]

\* the checks get_full_report and download_report_pdf make before building content,
\* without the test of an absent or empty token
access_token_compared_only(report_id, token) ==
    LET report == reports[report_id]
    IN  IF ~report.exists THEN NotFound
        ELSE IF report.access_token # token THEN Forbidden("denied")
        ELSE IF now > report.created_at + REPORT_ACCESS_TOKEN_EXPIRE_HOURS
        THEN Forbidden("expired")
        ELSE [kind |-> "content", status_code |-> 200, report_id |-> report_id]

\* the checks get_full_report and download_report_pdf make before building content
verify_access(report_id, token) ==
    LET report == reports[report_id]
    IN  IF ~report.exists THEN NotFound
        ELSE IF token \in {None, ""} \/ report.access_token # token THEN Forbidden("denied")
        ELSE IF now > report.created_at + REPORT_ACCESS_TOKEN_EXPIRE_HOURS
        THEN Forbidden("expired")
        ELSE [kind |-> "content", status_code |-> 200, report_id |-> report_id]

\* GET /report/{report_id}?token=...
get_full_report(report_id, token) ==
    /\ response' = [verify_access(report_id, token) EXCEPT !.kind =
                        IF @ = "content" THEN "report" ELSE @]
    /\ UNCHANGED <<data, result, page, reports, rows, tasks, nextId, fetches, log,
                   leads, now, issued, loaded>>

\* GET /report/{report_id}/pdf?token=...
download_report_pdf(report_id, token) ==
    /\ response' = [verify_access(report_id, token) EXCEPT !.kind =
                        IF @ = "content" THEN "pdf" ELSE @]
    /\ UNCHANGED <<data, result, page, reports, rows, tasks, nextId, fetches, log,
                   leads, now, issued, loaded>>

\* create_lead keeping the token the report already has
create_lead_keeps_token(report_id, email) ==
    LET report == reports[report_id]
        existing == {i \in 1..Len(leads) : leads[i].email = email}
        lead_id == IF existing # {} THEN CHOOSE i \in existing : TRUE ELSE Len(leads) + 1
        access_token == IF report.access_token # None THEN report.access_token
                        ELSE token_urlsafe
    IN  /\ IF ~report.exists
           THEN /\ response' = NotFound
                /\ UNCHANGED <<reports, leads, issued>>
           ELSE /\ issued < MaxTokens
                /\ leads' = IF existing # {}
                            THEN [leads EXCEPT ![lead_id].analyzed_url = report.url]
                            ELSE Append(leads, [email |-> email, analyzed_url |-> report.url])
                /\ reports' = [reports EXCEPT ![report_id].lead_id = lead_id,
                                              ![report_id].access_token = access_token]
                /\ issued' = issued + 1
                /\ response' = [kind |-> "lead", status_code |-> 200, lead_id |-> lead_id,
                                access_token |-> access_token]
        /\ UNCHANGED <<data, result, page, rows, tasks, nextId, fetches, log, now, loaded>>

\* POST /lead for report_id and email: the report is linked to the lead with that
\* email, which is created when there is none, and gets a new token
create_lead(report_id, email) ==
    LET report == reports[report_id]
        existing == {i \in 1..Len(leads) : leads[i].email = email}
        lead_id == IF existing # {} THEN CHOOSE i \in existing : TRUE ELSE Len(leads) + 1
        access_token == token_urlsafe
    IN  /\ IF ~report.exists
           THEN /\ response' = NotFound
                /\ UNCHANGED <<reports, leads, issued>>
           ELSE /\ issued < MaxTokens
                /\ leads' = IF existing # {}
                            THEN [leads EXCEPT ![lead_id].analyzed_url = report.url]
                            ELSE Append(leads, [email |-> email, analyzed_url |-> report.url])
                /\ reports' = [reports EXCEPT ![report_id].lead_id = lead_id,
                                              ![report_id].access_token = access_token]
                /\ issued' = issued + 1
                /\ response' = [kind |-> "lead", status_code |-> 200, lead_id |-> lead_id,
                                access_token |-> access_token]
        /\ UNCHANGED <<data, result, page, rows, tasks, nextId, fetches, log, now, loaded>>

\* time passes
Tick(hour) ==
    /\ hour > now
    /\ now' = hour
    /\ UNCHANGED <<data, result, page, reports, rows, tasks, nextId, response, fetches,
                   log, leads, issued, loaded>>

\* the first half of _generate: the enrichment call has ended as e, the session of the
\* task queries the Report row
generate_ai_sync_query(t, e) ==
    LET report == reports[t.report_id]
    IN  /\ t \in tasks
        /\ tasks' = tasks \ {t}
        /\ IF e.raised \/ ~report.exists
           THEN /\ log' = log \cup {[report_id |-> t.report_id,
                                     outcome |-> TaskOutcome(report, e)]}
                /\ UNCHANGED loaded
           ELSE /\ loaded' = loaded \cup {[report_id |-> t.report_id, report |-> report,
                                           sections |-> e]}
                /\ UNCHANGED log
        /\ UNCHANGED <<data, result, page, reports, rows, nextId, response, fetches,
                       leads, now, issued>>

\* the commit of the task writing back every column of the row its session loaded
commit_loaded_row(l) ==
    /\ l \in loaded
    /\ loaded' = loaded \ {l}
    /\ log' = log \cup {[report_id |-> l.report_id, outcome |-> TaskOutcome(l.report, l.sections)]}
    /\ reports' = IF MergeRaises(l.report, l.sections) THEN reports
                  ELSE [reports EXCEPT ![l.report_id] = MergeSections(l.report, l.sections)]
    /\ UNCHANGED <<data, result, page, rows, tasks, nextId, response, fetches,
                   leads, now, issued>>

\* the second half of _generate: the sections are merged into the full_report the
\* session loaded, and db.commit() updates the columns that were assigned
generate_ai_sync_commit(l) ==
    LET merged == MergeSections(l.report, l.sections)
    IN  /\ l \in loaded
        /\ loaded' = loaded \ {l}
        /\ log' = log \cup {[report_id |-> l.report_id,
                              outcome |-> TaskOutcome(l.report, l.sections)]}
        /\ reports' = IF MergeRaises(l.report, l.sections) THEN reports
                      ELSE [reports EXCEPT ![l.report_id].full_report = merged.full_report,
                                           ![l.report_id].overall_score = merged.overall_score]
        /\ UNCHANGED <<data, result, page, rows, tasks, nextId, response, fetches,
                       leads, now, issued>>

\* the requests and enrichment outcomes of the runs with leads: a page that is
\* analysed, and an enrichment that raises or adjusts a score
AccessRequests == {q \in Requests : ~FetchRaises(q[1]) /\ q[2] = RichPage}

AccessEnrichOutcomes ==
    {e \in EnrichOutcomes :
        \/ e.raised
        \/ (e.adjusted_type = "dict"
            /\ e.adjusted_scores = Dict({"value_proposition"}, JInt(1)))}

NextAccess ==
    \/ \E q \in AccessRequests : analyze_url(q[1], q[2])
    \/ \E id \in 1..MaxReports, email \in LeadEmails : create_lead(id, email)
    \/ \E id \in 1..MaxReports, token \in TokenSamples : get_full_report(id, token)
    \/ \E id \in 1..MaxReports, token \in TokenSamples : download_report_pdf(id, token)
    \/ \E hour \in ClockSamples : Tick(hour)

SpecAccess == Init /\ [][NextAccess]_vars

\* the steps of the background task between those of the requests
NextEnrich ==
    \/ \E q \in AccessRequests : analyze_url(q[1], q[2])
    \/ \E id \in 1..MaxReports, email \in EnrichEmails : create_lead(id, email)
    \/ \E id \in 1..MaxReports, token \in TokenSamples : get_full_report(id, token)
    \/ \E t \in tasks, e \in AccessEnrichOutcomes : generate_ai_sync_query(t, e)
    \/ \E l \in loaded : generate_ai_sync_commit(l)

SpecEnrich == Init /\ [][NextEnrich]_vars

-----------------------------------------------------------------------------
(* scraper.py: the gating check on the parsed document *)

\* A page is the chain of elements above a group of sibling anchors: ancestors[1]
\* is their parent, ancestors[Len] the outermost element, and above it sits the
\* document object, whose parent is None.  side_form says that the element has a
\* <form> in a child subtree that does not hold the anchors.
Level(tag, classes, side_form) == [tag |-> tag, classes |-> classes, side_form |-> side_form]

PlainLevel == Level("div", "", FALSE)

SpecialLevels ==
    {Level("div", "hero", FALSE), Level("div", "Modal-open", FALSE),
     Level("div", "signup-form", FALSE), Level("form", "", FALSE), Level("div", "", TRUE)}

\* any(c in str(classes).lower() for c in ["modal", "popup", "gate", "form"])
ClassMatches(classes) ==
    CASE classes = "Modal-open" -> TRUE
      [] classes = "signup-form" -> TRUE
      [] OTHER -> FALSE

\* parent.find("form") of the i-th ancestor: a <form> among its descendants, that is
\* an element of the chain strictly below it or a form in a side subtree at or below it
FindForm(ancestors, i) ==
    \/ \E j \in 1..Len(ancestors) : j < i /\ ancestors[j].tag = "form"
    \/ \E j \in 1..Len(ancestors) : j <= i /\ ancestors[j].side_form

\* one turn of the loop of _is_gated on the i-th parent; the parent after the
\* outermost element is the document (no attributes), the one after it None
GatedAt(ancestors, i) ==
    IF i > Len(ancestors) + 1 THEN FALSE
    ELSE IF i = Len(ancestors) + 1 THEN FindForm(ancestors, i)
    ELSE FindForm(ancestors, i) \/ ClassMatches(ancestors[i].classes)

is_gated(ancestors) == \E i \in 1..5 : GatedAt(ancestors, i)

HrefLower(href) ==
    CASE href = "/guide.pdf" -> "/guide.pdf"
      [] href = "Prislista.PDF?v=2" -> "prislista.pdf?v=2"
      [] href = "/om-oss" -> "/om-oss"
      [] href = "mailto:info@example.se?subject=Hej" -> "mailto:info@example.se?subject=hej"

IsPdfHref(href) == HrefLower(href) \in {"/guide.pdf", "prislista.pdf?v=2"}

\* urljoin(base_url, href) for the base https://example.se/sida/
urljoin(href) ==
    CASE href = "/guide.pdf" -> "https://example.se/guide.pdf"
      [] href = "Prislista.PDF?v=2" -> "https://example.se/sida/Prislista.PDF?v=2"
      [] href = "/om-oss" -> "https://example.se/om-oss"
      [] href = "mailto:info@example.se?subject=Hej" -> "mailto:info@example.se?subject=Hej"

\* the first keyword of extract_lead_magnets in the lowered link text
MagnetKeyword(text) ==
    CASE text = "Ladda ner guiden" -> "ladda ner"
      [] text = "Gratis rapport" -> "gratis"
      [] text = "Prislista som PDF" -> "pdf"
      [] OTHER -> None

Anchor(href, text) == [href |-> href, text |-> text]

\* the anchors with an href under one parent, in document order
AnchorSamples ==
    {<<Anchor("/guide.pdf", "Ladda ner guiden")>>,
     <<Anchor("Prislista.PDF?v=2", "Prislista")>>,
     <<Anchor("/om-oss", "Om oss")>>,
     <<Anchor("/om-oss", "Prislista som PDF")>>,
     <<Anchor("/om-oss", "Gratis rapport"), Anchor("/guide.pdf", "Ladda ner guiden")>>,
     <<Anchor("mailto:info@example.se?subject=Hej", "Mejla oss"), Anchor("/om-oss", "Om oss")>>,
     <<Anchor("Prislista.PDF?v=2", "Prislista"), Anchor("/om-oss", "Om oss"),
       Anchor("/guide.pdf", "Ladda ner guiden")>>}

\* extract_lead_magnets with the keyword of the link text kept as the type of a PDF link
lead_magnets_keyword_type(p) ==
    LET isMagnet(a) == MagnetKeyword(a.text) # None \/ IsPdfHref(a.href)
        magnet(a) == [text |-> a.text, url |-> urljoin(a.href),
                      type |-> IF MagnetKeyword(a.text) # None THEN MagnetKeyword(a.text)
                               ELSE "pdf",
                      is_gated |-> is_gated(p.ancestors)]
        RECURSIVE walk(_)
        walk(i) == IF i > Len(p.anchors) THEN <<>>
                   ELSE (IF isMagnet(p.anchors[i]) THEN <<magnet(p.anchors[i])>> ELSE <<>>)
                        \o walk(i + 1)
    IN  walk(1)

extract_lead_magnets(p) ==
    LET isMagnet(a) == MagnetKeyword(a.text) # None \/ IsPdfHref(a.href)
        magnet(a) == [text |-> a.text, url |-> urljoin(a.href),
                      type |-> IF IsPdfHref(a.href) THEN "pdf" ELSE MagnetKeyword(a.text),
                      is_gated |-> is_gated(p.ancestors)]
        RECURSIVE walk(_)
        walk(i) == IF i > Len(p.anchors) THEN <<>>
                   ELSE (IF isMagnet(p.anchors[i]) THEN <<magnet(p.anchors[i])>> ELSE <<>>)
                        \o walk(i + 1)
    IN  walk(1)

extract_ungated_pdfs(p) ==
    LET RECURSIVE walk(_)
        walk(i) == IF i > Len(p.anchors) THEN <<>>
                   ELSE (IF IsPdfHref(p.anchors[i].href) /\ ~is_gated(p.ancestors)
                         THEN <<[url |-> urljoin(p.anchors[i].href), text |-> p.anchors[i].text]>>
                         ELSE <<>>)
                        \o walk(i + 1)
    IN  walk(1)

\* chains of 1..MaxDepth elements of which at most MaxSpecial are no plain <div>
AncestorSamples ==
    UNION {UNION {{[i \in 1..n |-> IF i \in P THEN f[i] ELSE PlainLevel] :
                      f \in [P -> SpecialLevels]} :
                  P \in {Q \in SUBSET (1..n) : Cardinality(Q) <= MaxSpecial}} :
           n \in 1..MaxDepth}

PageSamples == {[ancestors |-> a, anchors |-> l] : a \in AncestorSamples, l \in AnchorSamples}

InitExtract ==
    /\ page \in PageSamples
    /\ data = EmptyPage
    /\ result = NoResult
    /\ IdleStore

\* the domain-name fallback of extract_company_info for https://example.se/sida/: the
\* sampled documents have no <meta>, <title> or <p>
extract_company_info(p) == [company_name |-> "Example", description |-> None]

\* find_all("form") in document order: the forms of the chain from the outermost
\* element inwards, each followed by the form of its side subtree; none of them has
\* an input or a button
extract_forms(p) ==
    LET n == Len(p.ancestors)
        RECURSIVE walk(_)
        walk(i) == IF i < 1 THEN <<>>
                   ELSE (IF p.ancestors[i].tag = "form" THEN <<FormRecord(<<>>, "", FALSE)>>
                         ELSE <<>>)
                        \o (IF p.ancestors[i].side_form THEN <<FormRecord(<<>>, "", FALSE)>>
                            ELSE <<>>)
                        \o walk(i - 1)
    IN  walk(n)

\* the first of cta_keywords in the lowered text of a link
CtaKeyword(text) ==
    CASE text = "Gratis rapport" -> "gratis"
      [] OTHER -> None

\* the sampled anchors carry no class and no style
extract_cta_buttons(p) ==
    LET RECURSIVE walk(_)
        walk(i) == IF i > Len(p.anchors) THEN <<>>
                   ELSE (IF CtaKeyword(p.anchors[i].text) # None /\ StrLen(p.anchors[i].text) < 50
                         THEN <<[text |-> p.anchors[i].text, tag |-> "a",
                                 href |-> p.anchors[i].href, color_hint |-> None]>>
                         ELSE <<>>)
                        \o walk(i + 1)
    IN  walk(1)

\* no element of the sampled documents has a testimonial, logo or rating class
extract_social_proof(p) == <<>>

IsMailto(href) == href = "mailto:info@example.se?subject=Hej"

\* href.replace("mailto:", "").split("?")[0]
MailtoAddress(href) ==
    CASE href = "mailto:info@example.se?subject=Hej" -> "info@example.se"

extract_mailto_links(p) ==
    LET RECURSIVE walk(_)
        walk(i) == IF i > Len(p.anchors) THEN <<>>
                   ELSE (IF IsMailto(p.anchors[i].href)
                         THEN <<[email |-> MailtoAddress(p.anchors[i].href),
                                 text |-> p.anchors[i].text]>>
                         ELSE <<>>)
                        \o walk(i + 1)
    IN  walk(1)

\* any(k in classes for k in hero_keywords) on a <div> of the chain
HeroClass(classes) == classes = "hero"

\* the sampled documents have no <h1>
extract_value_proposition(p) ==
    ValueProposition(None,
                     \E i \in 1..Len(p.ancestors) :
                         p.ancestors[i].tag = "div" /\ HeroClass(p.ancestors[i].classes),
                     FALSE)

\* the dictionary scrape_and_analyze returns
ScrapedData(p) ==
    [url |-> "https://example.se/sida/",
     company_info |-> extract_company_info(p),
     lead_magnets |-> extract_lead_magnets(p),
     forms |-> extract_forms(p),
     cta_buttons |-> extract_cta_buttons(p),
     social_proof |-> extract_social_proof(p),
     mailto_links |-> extract_mailto_links(p),
     ungated_pdfs |-> extract_ungated_pdfs(p),
     value_proposition |-> extract_value_proposition(p)]

\* scrape_and_analyze on the parsed page
scrape_and_analyze ==
    /\ result = NoResult
    /\ result' = [kind |-> "extracted",
                  lead_magnets |-> extract_lead_magnets(page),
                  ungated_pdfs |-> extract_ungated_pdfs(page),
                  scraped_data |-> ScrapedData(page)]
    /\ UNCHANGED <<data, page, reports, rows, tasks, nextId, response, fetches, log,
                 leads, now, issued, loaded>>

NextExtract == scrape_and_analyze

SpecExtract == InitExtract /\ [][NextExtract]_vars

-----------------------------------------------------------------------------
(* industry_detector.py: the industry classification *)

\* the keys of INDUSTRY_TAXONOMY in the order of the dictionary
Industries ==
    <<"finance", "saas", "ecommerce", "consulting", "healthcare", "realestate",
      "legal", "marketing", "manufacturing", "education">>

IndustryLabel(industry) ==
    CASE industry = "finance" -> "Finans & Transaktionsrådgivning"
      [] industry = "saas" -> "SaaS & Teknologi"
      [] industry = "ecommerce" -> "E-handel & Retail"
      [] industry = "consulting" -> "Konsulttjänster"
      [] industry = "healthcare" -> "Hälsa & Sjukvård"
      [] industry = "realestate" -> "Fastighet & Mäkleri"
      [] industry = "legal" -> "Juridik & Advokat"
      [] industry = "marketing" -> "Marknadsföring & Reklam"
      [] industry = "manufacturing" -> "Tillverkning & Industri"
      [] industry = "education" -> "Utbildning & Lärande"

\* the keywords of the taxonomy that the sampled texts can contain
KeywordSample == {"bank", "due diligence", "rådgivning", "plattform", "digital"}

\* the entries of an industry's keyword list that are in KeywordSample, as listed
\* ("digital" stands twice in the list of marketing)
IndustryKeywords(industry) ==
    CASE industry = "finance" -> <<"bank", "rådgivning", "due diligence">>
      [] industry = "saas" -> <<"plattform", "digital">>
      [] industry = "consulting" -> <<"rådgivning">>
      [] industry = "legal" -> <<"rådgivning">>
      [] industry = "marketing" -> <<"digital", "digital">>
      [] OTHER -> <<>>

\* len(keyword.split())
KeywordWords(keyword) == IF keyword = "due diligence" THEN 2 ELSE 1

\* weight = 1 + (len(keyword.split()) - 1) * 0.5, in halves
KeywordWeight(keyword) == 2 + (KeywordWords(keyword) - 1)

\* A text is represented by what the detector reads from it: for each keyword the
\* number of matches len(re.findall(r'\b' + keyword + r'\b', text)) in the joined,
\* lower-cased texts of _collect_text.
TextSamples == [KeywordSample -> (0..MaxMatches) \cup {ManyMatches}]

\* scores[industry] of _score_industries, in halves; an industry is a key of the
\* Counter only if one of its keywords matched
IndustryScore(text, industry) ==
    LET kws == IndustryKeywords(industry)
    IN  SumSeq([i \in 1..Len(kws) |-> text[kws[i]] * KeywordWeight(kws[i])])

score_industries(text) ==
    LET matched == {i \in 1..Len(Industries) :
                       \E k \in 1..Len(IndustryKeywords(Industries[i])) :
                           text[IndustryKeywords(Industries[i])[k]] > 0}
    IN  [i \in matched |-> IndustryScore(text, Industries[i])]

\* round(x, 2) of x = num / den, in hundredths.  Where num / den lies midway
\* between two hundredths, tie_up says that the double the code computed lies above
\* the midpoint.
RoundHundredths(num, den, tie_up) ==
    LET q == num \div den
        r == num % den
    IN  IF 2 * r > den THEN q + 1
        ELSE IF 2 * r = den /\ tie_up THEN q + 1
        ELSE q

\* the pairs <<2 * top_score, 2 * second_score>> with a confidence midway between
\* two hundredths for which  absolute_confidence * 0.6 + relative_confidence * 0.4
\* evaluates, in double precision, to a value that round(_, 2) rounds up; on the
\* other midway pairs the double is rounded down
ConfidenceTiesUp ==
    {<<16, 9>>, <<16, 15>>, <<32, 6>>, <<32, 10>>, <<32, 18>>, <<32, 26>>,
     <<48, 27>>, <<48, 39>>, <<64, 12>>}

\* detect with the confidence taken from the lead over the second industry alone
detect_relative_only(text) ==
    LET scores == score_industries(text)
        top == CHOOSE i \in DOMAIN scores : \A j \in DOMAIN scores : scores[j] <= scores[i]
        second == IF \E j \in DOMAIN scores \ {top} : TRUE
                  THEN scores[CHOOSE i \in DOMAIN scores \ {top} :
                                  \A j \in DOMAIN scores \ {top} : scores[j] <= scores[i]]
                  ELSE 0
    IN  IF DOMAIN scores = {}
        THEN [industry |-> "general", confidence |-> 0, label |-> "Allmänt B2B"]
        ELSE [industry |-> Industries[top],
              confidence |-> RoundHundredths(40 * (scores[top] - second), scores[top], FALSE),
              label |-> IndustryLabel(Industries[top])]

\* detect: the confidence is in hundredths.  With T = 2 * top_score and
\* S = 2 * second_score,  0.6 * min(top / 10, 1) + 0.4 * (top - second) / top
\* is  (3 * min(T, 20) * T + 40 * (T - S)) / (100 * T).
detect(text) ==
    LET scores == score_industries(text)
        \* max(scores, key=scores.get): the first key with the greatest value
        top_industry ==
            CHOOSE i \in DOMAIN scores :
                /\ \A j \in DOMAIN scores : scores[j] <= scores[i]
                /\ \A j \in DOMAIN scores : scores[j] = scores[i] => i <= j
        top_score == scores[top_industry]
        \* sorted(scores.values(), reverse=True)[1], or 0
        rest == DOMAIN scores \ {top_industry}
        second_score ==
            IF rest = {} THEN 0
            ELSE scores[CHOOSE i \in rest : \A j \in rest : scores[j] <= scores[i]]
        confidence ==
            Min(100, RoundHundredths(3 * Min(top_score, 20) * top_score
                                       + 40 * (top_score - second_score), top_score,
                                     <<top_score, second_score>> \in ConfidenceTiesUp))
    IN  IF DOMAIN scores = {}
        THEN [industry |-> "general", confidence |-> 0, label |-> "Allmänt B2B"]
        ELSE [industry |-> Industries[top_industry],
              confidence |-> confidence,
              label |-> IndustryLabel(Industries[top_industry])]

InitIndustry ==
    /\ data \in TextSamples
    /\ result = NoResult
    /\ page = NoPage
    /\ IdleStore

\* detector.detect() on the texts of the scraped data
RunDetect ==
    /\ result = NoResult
    /\ result' = [kind |-> "industry", detected |-> detect(data)]
    /\ UNCHANGED <<data, page, reports, rows, tasks, nextId, response, fetches, log,
                 leads, now, issued, loaded>>

NextIndustry == RunDetect

SpecIndustry == InitIndustry /\ [][NextIndustry]_vars

-----------------------------------------------------------------------------
(* Properties of the scoring engine (SpecScoring) *)

Abs(n) == IF n < 0 THEN -n ELSE n

Flag(b) == IF b THEN 1 ELSE 0

\* generate_analysis has run on data / has run and returned
Analysed == result.kind = "analysis"
Produced == Analysed /\ ~result.analysis.raised

ScoreOf(criteria_analysis, key) ==
    LET i == CHOOSE j \in 1..Len(criteria_analysis) : criteria_analysis[j].criterion = key
    IN  criteria_analysis[i].score

\* C1 (as stated): on every ExtractedElements input each of the seven analyzers
\* returns, without raising, an integer score of 1..5.
C1_AnalyzersReturnScores ==
    Analysed =>
        \A i \in 1..Len(Criteria) :
            LET r == Analyze(Criteria[i], data)
            IN  ~r.raised /\ r.score \in 1..5

\* The second half of C1: every criterion score stored for a report, also after the
\* enrichment task applied adjusted scores, is an integer of 1..5.
StoredScoresInRange ==
    /\ \A r \in rows : r.score \in 1..5
    /\ \A id \in 1..MaxReports :
          reports[id].exists =>
              \A i \in 1..Len(reports[id].full_report.criteria_analysis) :
                  reports[id].full_report.criteria_analysis[i].score \in 1..5

\* C7: leaking_funnels is the projection of the extracted leaks: as long as
\* mailto_links and ungated_pdfs together, every entry of severity "high", the mailto
\* entries first and then the PDF entries, each group in source order.
C7_LeakingFunnelsProjection ==
    Analysed =>
        LET m == data.mailto_links
            p == data.ungated_pdfs
            lf == generate_leaking_funnels(data)
        IN  /\ Len(lf) = Len(m) + Len(p)
            /\ \A i \in 1..Len(lf) : lf[i].severity = "high"
            /\ \A i \in 1..Len(m) :
                  lf[i].type = "mailto_link_leak" /\ lf[i].details = m[i].email
            /\ \A i \in 1..Len(p) :
                  /\ lf[Len(m) + i].type = "open_pdf_leak"
                  /\ lf[Len(m) + i].details = p[i].url
            /\ ~result.analysis.raised => result.analysis.leaking_funnels = lf

C7_Witness ==
    /\ Produced
    /\ Len(data.mailto_links) >= 2
    /\ data.mailto_links[1].email # data.mailto_links[2].email
    /\ Len(data.ungated_pdfs) >= 1
    /\ Len(result.analysis.leaking_funnels) >= 3

\* C8: issues_found is the number of mailto links plus the number of ungated PDFs
\* plus one for each of: no form other than a search form, no lead magnets, no social
\* proof, no CTA buttons, no H1.
C8_IssuesFoundTally ==
    Analysed =>
        LET lead_capture == {i \in 1..Len(data.forms) : data.forms[i].type # "search"}
            tally == Len(data.mailto_links) + Len(data.ungated_pdfs)
                     + Flag(lead_capture = {})
                     + Flag(Len(data.lead_magnets) = 0)
                     + Flag(Len(data.social_proof) = 0)
                     + Flag(Len(data.cta_buttons) = 0)
                     + Flag(data.value_proposition.h1 \in {None, ""})
        IN  /\ count_issues(data) = tally
            /\ ~result.analysis.raised => result.analysis.issues_found = tally

C8_Witness ==
    /\ Produced
    /\ Len(data.forms) >= 1
    /\ \A i \in 1..Len(data.forms) : data.forms[i].type = "search"
    /\ Len(data.mailto_links) >= 1
    /\ result.analysis.issues_found >= 2

\* the page of C9: no forms, no CTA buttons, no social proof, no H1
C9Case ==
    /\ data.forms = <<>>
    /\ data.cta_buttons = <<>>
    /\ data.social_proof = <<>>
    /\ data.value_proposition.h1 \in {None, ""}

C9Scores ==
    /\ ~result.analysis.raised
    /\ \A key \in {"value_proposition", "call_to_action", "social_proof", "guiding_content"} :
          ScoreOf(result.analysis.criteria_analysis, key) = 1

\* C9 (as stated): on a page without forms, CTA buttons, social proof and H1 the
\* scores of value_proposition, call_to_action, social_proof and guiding_content are 1
\* and issues_found is at least 6.
C9_EmptyPageSixIssues ==
    (Analysed /\ C9Case) => (C9Scores /\ result.analysis.issues_found >= 6)

\* C9 (amended): on such a page the four scores are 1 and issues_found is 4 plus one
\* if there is no lead magnet plus the number of leaks, hence at least 4.
C9_EmptyPageFourIssues ==
    (Analysed /\ C9Case) =>
        /\ C9Scores
        /\ result.analysis.issues_found =
              4 + Flag(Len(data.lead_magnets) = 0)
              + Len(data.mailto_links) + Len(data.ungated_pdfs)
        /\ result.analysis.issues_found >= 4

C9_Witness == Produced /\ C9Case /\ result.analysis.issues_found = 4

-----------------------------------------------------------------------------
(* Properties of the report store and the enrichment task (Spec) *)

Done(id, outcome) == [report_id |-> id, outcome |-> outcome] \in log

\* the weight table of the specification, in tenths
TableWeight(key) ==
    CASE key = "value_proposition" -> 20
      [] key \in {"call_to_action", "lead_magnets"} -> 15
      [] OTHER -> 10

\* C2: the overall score stored for a report is round(sum(score * weight) / 9.0, 1)
\* over the seven criterion scores stored in its full_report, right after analyze and
\* after the enrichment task, and the task recomputes with the same weight table.
C2_OverallScoreFormula ==
    /\ \A i \in 1..Len(Criteria) :
          weights(Criteria[i]) = TableWeight(Criteria[i])
          /\ CATEGORY_WEIGHTS(Criteria[i]) = TableWeight(Criteria[i])
    /\ \A id \in 1..MaxReports :
          reports[id].exists =>
              LET ca == reports[id].full_report.criteria_analysis
                  weighted_sum ==
                      SumSeq([i \in 1..Len(ca) |-> ca[i].score * TableWeight(ca[i].criterion)])
                  overall == reports[id].overall_score
              IN  /\ [i \in 1..Len(ca) |-> ca[i].criterion] = Criteria
                  \* overall (in tenths) is the tenth nearest to weighted_sum / 90
                  /\ Abs(10 * weighted_sum - 90 * overall) <= 45
                  /\ reports[id].full_report.overall_score \subseteq {overall}

\* a report analysed with value_proposition 5 whose adjusted value 1 was applied:
\* the overall score went from 4.8 to 3.9
C2_Witness ==
    \E id \in 1..MaxReports :
        /\ reports[id].exists
        /\ Done(id, "complete")
        /\ [report_id |-> id, criterion |-> "value_proposition", score |-> 5] \in rows
        /\ ScoreOf(reports[id].full_report.criteria_analysis, "value_proposition") = 1
        /\ reports[id].full_report.overall_score = {39}

\* the task ran to its merge for an existing report with a dict of adjusted scores
Merged(t, e) ==
    /\ ~e.raised
    /\ e.adjusted_type = "dict"
    /\ reports[t.report_id].exists
    /\ generate_ai_sync(t, e)

\* C3 (as stated): an adjusted value that is not numeric or lies outside 1..5 is
\* ignored, the criterion keeps its score; only a number of 1..5 replaces it.
C3_InvalidAdjustmentIgnored ==
    [][\A t \in tasks : tasks' = tasks \ {t} => \A e \in EnrichOutcomes :
          Merged(t, e) =>
              \A i \in 1..Len(Criteria) :
                  LET before == reports[t.report_id].full_report.criteria_analysis[i]
                      after == reports'[t.report_id].full_report.criteria_analysis[i]
                      x == ScoreMapGet(e.adjusted_scores, before.criterion)
                      valid == x.t \in {"int", "float"} /\ x.v >= 1
                               /\ x.v <= (IF x.t = "int" THEN 5 ELSE 50)
                  IN  ~valid => after.score = before.score
      ]_vars

\* the score the merge stores for a criterion: int(x) clamped into 1..5, where int
\* truncates a float, reads a numeric string and takes a boolean as 0 or 1, and the
\* old score when x is missing, null, or no number for int
ClampedAdjustment(before, adjusted_scores) ==
    IF before.criterion \notin DOMAIN adjusted_scores THEN before.score
    ELSE LET x == adjusted_scores[before.criterion]
         IN  CASE x.t = "int" -> IF x.v < 1 THEN 1 ELSE IF x.v > 5 THEN 5 ELSE x.v
               [] x.t = "float" -> IF x.v < 10 THEN 1 ELSE IF x.v >= 50 THEN 5 ELSE x.v \div 10
               [] x.t = "bool" -> 1
               [] x.t = "str" /\ x.v = "4" -> 4
               [] OTHER -> before.score

\* C3 (amended): an adjusted value that is missing, null or not convertible by int()
\* is ignored; every other value is converted and clamped into 1..5 and replaces the
\* stored score, so a number outside 1..5 stores 1 or 5 (unless some value is an
\* infinite float: then the whole merge fails and nothing changes).
C3_AdjustmentClamped ==
    [][\A t \in tasks : tasks' = tasks \ {t} => \A e \in EnrichOutcomes :
          (Merged(t, e)
           /\ \A k \in DOMAIN e.adjusted_scores : e.adjusted_scores[k].t # "infinity") =>
              \A i \in 1..Len(Criteria) :
                  LET before == reports[t.report_id].full_report.criteria_analysis[i]
                      after == reports'[t.report_id].full_report.criteria_analysis[i]
                  IN  after.score = ClampedAdjustment(before, e.adjusted_scores)
      ]_vars

\* a report analysed with value_proposition 1 that stores 5 after the task: of the
\* adjusted values the task can meet only 9 does that
C3_Witness ==
    \E id \in 1..MaxReports :
        /\ reports[id].exists
        /\ Done(id, "complete")
        /\ [report_id |-> id, criterion |-> "value_proposition", score |-> 1] \in rows
        /\ ScoreOf(reports[id].full_report.criteria_analysis, "value_proposition") = 5

\* C4: when the enrichment result has no adjusted_scores (missing or empty) the task
\* changes the narrative and the ai_generated flag of its report and nothing else:
\* criterion scores and overall score are as before.
C4_NoAdjustedScoresKeepsScores ==
    [][\A t \in tasks : tasks' = tasks \ {t} => \A e \in EnrichOutcomes :
          (Merged(t, e) /\ DOMAIN e.adjusted_scores = {}) =>
              /\ reports' = [reports EXCEPT ![t.report_id].full_report.narrative = e.text,
                                            ![t.report_id].full_report.ai_generated = TRUE]
              /\ reports'[t.report_id].full_report.criteria_analysis
                    = reports[t.report_id].full_report.criteria_analysis
              /\ reports'[t.report_id].overall_score = reports[t.report_id].overall_score
              /\ rows' = rows
      ]_vars

\* a report the task completed from the static templates: marked ai_generated, never
\* given an overall_score key, scores as analysed
C4_Witness ==
    \E id \in 1..MaxReports :
        /\ reports[id].exists
        /\ Done(id, "complete")
        /\ reports[id].full_report.narrative = "template"
        /\ reports[id].full_report.ai_generated
        /\ reports[id].full_report.overall_score = {}
        /\ \A i \in 1..Len(Criteria) :
              [report_id |-> id, criterion |-> Criteria[i],
               score |-> reports[id].full_report.criteria_analysis[i].score] \in rows

FetchFails(o) ==
    \/ o.transport \in {"network_error", "timeout"}
    \/ o.status_code \notin 200..299
    \/ o.content_length > 5000000

\* C6: when the fetch fails the request ends with an error after exactly one fetch
\* attempt, no Report or AnalysisData row is stored and no task is scheduled.
C6_FetchFailureIsFatal ==
    [][\A q \in Requests :
          (FetchFails(q[1]) /\ analyze_url(q[1], q[2])) =>
              /\ response'.kind = "error"
              /\ fetches' = 1
              /\ reports' = reports
              /\ rows' = rows
              /\ tasks' = tasks
              /\ nextId' = nextId
      ]_vars

\* a request that failed on its fetch after an earlier one had stored a report
C6_Witness ==
    /\ response = ErrorResponse("fetch")
    /\ fetches = 1
    /\ nextId = 2
    /\ reports[1].exists
    /\ ~reports[2].exists
    /\ Cardinality(rows) = Len(Criteria)

-----------------------------------------------------------------------------
(* Properties of the gating check (SpecExtract) *)

\* C10 (as stated): a .pdf link with a <form> among the five ancestors walked is
\* is_gated and not in ungated_pdfs; the same link with no ancestor that is a form or
\* carries a modal/popup/gate/form class is not is_gated and is in ungated_pdfs,
\* whatever forms stand elsewhere on the page.
C10_GatingDetection ==
    result.kind = "extracted" =>
        \A i \in 1..Len(page.anchors) :
            IsPdfHref(page.anchors[i].href) =>
                LET url == urljoin(page.anchors[i].href)
                    anc == page.ancestors
                    enclosed == \E k \in 1..Len(anc) : k <= 5 /\ anc[k].tag = "form"
                    clear == \A k \in 1..Len(anc) :
                                /\ anc[k].tag # "form"
                                /\ anc[k].classes \notin {"Modal-open", "signup-form"}
                    gated == {result.lead_magnets[j].is_gated :
                                j \in {n \in 1..Len(result.lead_magnets) :
                                          result.lead_magnets[n].url = url}}
                    listed == \E j \in 1..Len(result.ungated_pdfs) :
                                 result.ungated_pdfs[j].url = url
                IN  /\ enclosed => (gated = {TRUE} /\ ~listed)
                    /\ clear => (gated = {FALSE} /\ listed)

-----------------------------------------------------------------------------
(* Properties of the single analyzers (SpecScoring) *)

HasLeak(d) == Len(d.mailto_links) + Len(d.ungated_pdfs) > 0

GatedCount(d) == Cardinality({i \in 1..Len(d.lead_magnets) : d.lead_magnets[i].is_gated})

HasNewsletterMagnet(d) ==
    \E i \in 1..Len(d.lead_magnets) :
        d.lead_magnets[i].text \in {"Gratis nyhetsbrev"}

\* C13: the lead_magnets score is 1 without magnets and leaks, 2 when a leak (mailto
\* link or ungated PDF) exists and no magnet is gated, 3 when a leak and a gated
\* magnet coexist, hence at most 3 while a leak exists; with two or more gated
\* magnets, no leak and no newsletter-only magnet it is 4 or 5.
C13_LeadMagnetsScore ==
    Analysed =>
        LET r == analyze_lead_magnets(data)
        IN  /\ ~r.raised
            /\ (data.lead_magnets = <<>> /\ ~HasLeak(data)) => r.score = 1
            /\ (HasLeak(data) /\ GatedCount(data) = 0) => r.score = 2
            /\ (HasLeak(data) /\ GatedCount(data) > 0) => r.score = 3
            /\ HasLeak(data) => r.score <= 3
            /\ (GatedCount(data) >= 2 /\ ~HasLeak(data) /\ ~HasNewsletterMagnet(data))
                   => r.score \in {4, 5}

\* the page with three mailto links and two ungated PDFs and no gated magnet has
\* been analysed: score 2 and five leaking funnels
C13_Witness ==
    /\ Produced
    /\ Len(data.mailto_links) = 3 /\ Len(data.ungated_pdfs) = 2 /\ GatedCount(data) = 0
    /\ ScoreOf(result.analysis.criteria_analysis, "lead_magnets") = 2
    /\ Len(result.analysis.leaking_funnels) = 5

HasHighProblem(r) == \E i \in 1..Len(r.problems) : r.problems[i].severity = "high"

OfferSignal(d, key) ==
    d.offer_structure # <<>> /\ d.offer_structure[key]

\* a low-barrier offer: the flag of the offer data, or a CTA naming a demo
LowBarrierOffer(d) ==
    \/ OfferSignal(d, "has_free_offer")
    \/ \E i \in 1..Len(d.cta_buttons) : d.cta_buttons[i].text = "Boka demo"

\* C14: the offer_structure score is at most 2 whenever the analyzer emits a problem
\* of severity high, whatever the pricing signals; it is 1 without CTAs and without a
\* low-barrier offer; it is 5 when a low-barrier offer, transparent pricing and
\* segmented pricing are all present.
C14_OfferStructureScore ==
    Analysed =>
        LET r == analyze_offer_structure(data)
        IN  /\ ~r.raised
            /\ HasHighProblem(r) => r.score <= 2
            /\ (data.cta_buttons = <<>> /\ ~LowBarrierOffer(data)) => r.score = 1
            /\ (/\ LowBarrierOffer(data)
                /\ OfferSignal(data, "has_pricing")
                /\ OfferSignal(data, "has_segmented_pricing")) => r.score = 5

\* a page with a CTA, segmented pricing and no low-barrier offer has been analysed:
\* the high-severity problem holds the score at 2
C14_Witness ==
    /\ Produced
    /\ data.cta_buttons # <<>> /\ ~LowBarrierOffer(data)
    /\ OfferSignal(data, "has_pricing") /\ OfferSignal(data, "has_segmented_pricing")
    /\ HasHighProblem(analyze_offer_structure(data))
    /\ ScoreOf(result.analysis.criteria_analysis, "offer_structure") = 2

\* no <h1>, or one without text
H1Missing(d) == d.value_proposition.h1 \in {None, ""}

H1Vague(d) == d.value_proposition.h1 \in {"Hem", "Välkommen till oss",
    "Welcome to the leading platform for conversion optimisation and lead generation now"}

\* C15: the value_proposition score is 1 when the H1 is missing or vague; it is 5
\* exactly when no problem is tagged, that is when the H1 is present, not vague and
\* of 10..80 characters and a hero section and a subheadline are detected; in every
\* other case it is 2, 3 or 4.
C15_ValuePropositionScore ==
    Analysed =>
        LET r == analyze_value_proposition(data)
            vp == data.value_proposition
            ideal == /\ ~H1Missing(data) /\ ~H1Vague(data)
                     /\ vp.h1_length >= 10 /\ vp.h1_length <= 80
                     /\ vp.has_hero /\ vp.has_subheadline
        IN  /\ ~r.raised
            /\ (H1Missing(data) \/ H1Vague(data)) => r.score = 1
            /\ (r.score = 5) <=> (r.problems = <<>>)
            /\ (r.problems = <<>>) <=> ideal
            /\ (~H1Missing(data) /\ ~H1Vague(data) /\ ~ideal) => r.score \in 2..4

\* a page with hero and subheadline and an H1 of exactly 80 characters got score 5
C15_Witness ==
    /\ Produced
    /\ data.value_proposition.h1_length = 80
    /\ data.value_proposition.has_hero /\ data.value_proposition.has_subheadline
    /\ ScoreOf(result.analysis.criteria_analysis, "value_proposition") = 5

GenericCtas(d) == {i \in 1..Len(d.cta_buttons) : d.cta_buttons[i].text \in {"Läs mer", " Skicka "}}

ActionCtas(d) == {i \in 1..Len(d.cta_buttons) : d.cta_buttons[i].text \in {"Boka demo", "Boka tid"}}

\* C16: the call_to_action score is 1 without CTAs; it is at most 2 when any CTA has
\* a generic text, however many action-oriented CTAs there are; with two or more
\* CTAs, one of them with an action-oriented keyword and none generic, it is at
\* least 4.
C16_CallToActionScore ==
    Analysed =>
        LET r == analyze_cta(data)
        IN  /\ ~r.raised
            /\ data.cta_buttons = <<>> => r.score = 1
            /\ GenericCtas(data) # {} => r.score <= 2
            /\ (/\ Len(data.cta_buttons) >= 2
                /\ ActionCtas(data) # {}
                /\ GenericCtas(data) = {}) => r.score >= 4

\* a page with two action-oriented CTAs and a generic one has been analysed: score 2
C16_Witness ==
    /\ Produced
    /\ Cardinality(ActionCtas(data)) >= 2 /\ GenericCtas(data) # {}
    /\ ScoreOf(result.analysis.criteria_analysis, "call_to_action") = 2

LeadFormIndexes(d) == {i \in 1..Len(d.forms) : d.forms[i].type # "search"}

GenericSubmit(form) == form.submit_text \in {"Skicka", " SUBMIT "}

ProofKinds(proof) ==
    {IF proof[i].type \in {"testimonial", "quote"} THEN "testimonial" ELSE proof[i].type :
        i \in 1..Len(proof)}

\* C18: the social_proof score depends only on which of the three proof types
\* (testimonial or quote, client_logos, ratings) are present: none gives 1, one gives
\* 2 or 3, two give 4, three give 5; and an input with the same and more proof types
\* never scores lower.
C18_SocialProofScore ==
    Analysed =>
        LET r == analyze_social_proof(data)
            kinds == ProofKinds(data.social_proof)
            n == Cardinality(kinds)
        IN  /\ ~r.raised
            /\ n = 0 => r.score = 1
            /\ n = 1 => r.score \in {2, 3}
            /\ n = 2 => r.score = 4
            /\ n = 3 => r.score = 5
            /\ \A sp \in ProofSamples :
                   LET other == analyze_social_proof([data EXCEPT !.social_proof = sp])
                   IN  /\ ProofKinds(sp) = kinds => other.score = r.score
                       /\ kinds \subseteq ProofKinds(sp) => other.score >= r.score

\* a page showing a testimonial and a quote and nothing else has been analysed:
\* one proof type, score 3
C18_Witness ==
    /\ Produced
    /\ {data.social_proof[i].type : i \in 1..Len(data.social_proof)} = {"testimonial", "quote"}
    /\ ScoreOf(result.analysis.criteria_analysis, "social_proof") = 3

\* C19: the guiding_content score is 1 without lead form and CTA; it exceeds 3, and
\* so reaches 5, only when a lead (non-search) form and a CTA are both present and
\* no problem of severity high is tagged.
C19_GuidingContentScore ==
    Analysed =>
        LET r == analyze_guiding_content(data)
            both == LeadFormIndexes(data) # {} /\ data.cta_buttons # <<>>
        IN  /\ ~r.raised
            /\ (LeadFormIndexes(data) = {} /\ data.cta_buttons = <<>>) => r.score = 1
            /\ r.score > 3 => (both /\ ~HasHighProblem(r))
            /\ r.score <= 5

\* a page with a lead form and three CTAs has been analysed: score 5
C19_Witness ==
    /\ Produced
    /\ LeadFormIndexes(data) # {} /\ Len(data.cta_buttons) >= 3
    /\ ScoreOf(result.analysis.criteria_analysis, "guiding_content") = 5

LeakMessages == {"mailto_links", "ungated_pdfs"}

MissingMessages == {"no_lead_magnets", "no_social_proof", "no_lead_forms", "no_h1"}

LeaksFirst(errors) ==
    \A i, j \in 1..Len(errors) :
        (errors[i] \in MissingMessages /\ errors[j] \in LeakMessages) => j < i

\* C20: logical_errors has at most 5 entries whatever conditions hold, and every
\* leak message (mailto links, ungated PDFs) precedes every missing-capability
\* message (no lead magnets, no social proof, no lead form, no H1); also on the
\* input with the lead magnets taken away, where all six conditions can hold.
C20_LogicalErrorsCappedAndOrdered ==
    Analysed =>
        \A d \in {data, [data EXCEPT !.lead_magnets = <<>>]} :
            LET errors == generate_logical_errors(d)
            IN  /\ Len(errors) <= 5
                /\ \A i \in 1..Len(errors) : errors[i] \in LeakMessages \cup MissingMessages
                /\ LeaksFirst(errors)
                /\ (d.mailto_links # <<>>) <=> (\E i \in 1..Len(errors) : errors[i] = "mailto_links")
                /\ (d.ungated_pdfs # <<>>) <=> (\E i \in 1..Len(errors) : errors[i] = "ungated_pdfs")

\* a page with mailto links, ungated PDFs, no social proof, no lead form and no H1
\* has been analysed: five messages, the two leak messages first
C20_Witness ==
    /\ Produced
    /\ data.mailto_links # <<>> /\ data.ungated_pdfs # <<>>
    /\ Len(result.analysis.logical_errors) = 5
    /\ result.analysis.logical_errors[1] = "mailto_links"
    /\ result.analysis.logical_errors[2] = "ungated_pdfs"
    /\ result.analysis.logical_errors[5] = "no_h1"

-----------------------------------------------------------------------------
(* Properties of the extraction pipeline (SpecExtract) *)

IsSequence(x) == DOMAIN x = 1..Len(x)

\* C12 (as stated): the record the extraction pipeline returns always holds
\* company_info, lead_magnets, forms, cta_buttons, social_proof, mailto_links,
\* ungated_pdfs, value_proposition and offer_structure with its four fields, and
\* every collection is a (possibly empty) sequence, never None.
C12_ExtractedElementsComplete ==
    result.kind = "extracted" =>
        LET d == result.scraped_data
        IN  /\ \A k \in {"lead_magnets", "forms", "cta_buttons", "social_proof",
                          "mailto_links", "ungated_pdfs"} :
                   k \in DOMAIN d /\ d[k] # None /\ IsSequence(d[k])
            /\ {"company_info", "value_proposition"} \subseteq DOMAIN d
            /\ "offer_structure" \in DOMAIN d
            /\ {"has_free_offer", "has_pricing", "has_segmented_pricing", "pricing_tiers"}
                   \subseteq DOMAIN d.offer_structure

\* What the code does guarantee: the eight other components are always present and
\* the six collections are sequences.
ExtractedCollectionsPresent ==
    result.kind = "extracted" =>
        LET d == result.scraped_data
        IN  /\ \A k \in {"lead_magnets", "forms", "cta_buttons", "social_proof",
                          "mailto_links", "ungated_pdfs"} :
                   k \in DOMAIN d /\ IsSequence(d[k])
            /\ {"company_info", "value_proposition"} \subseteq DOMAIN d

-----------------------------------------------------------------------------
(* Properties of the stored criterion records (Spec) *)

\* C11 (as stated): every criterion record stored for a report, also after the task
\* applied adjusted scores, has the table weight of its key, weighted_score = score *
\* weight, and status critical for score <= 2, improvement for 3, good for >= 4.
C11_CriterionRecordsConsistent ==
    \A id \in 1..MaxReports :
        reports[id].exists =>
            \A i \in 1..Len(reports[id].full_report.criteria_analysis) :
                LET c == reports[id].full_report.criteria_analysis[i]
                IN  /\ c.weight = TableWeight(c.criterion)
                    /\ c.weighted_score = c.score * c.weight
                    /\ c.status = (IF c.score <= 2 THEN "critical"
                                   ELSE IF c.score = 3 THEN "improvement" ELSE "good")

-----------------------------------------------------------------------------
(* Properties of the industry classification (SpecIndustry) *)

Detected == result.kind = "industry"

AnyKeywordMatches(text) == \E kw \in KeywordSample : text[kw] > 0

\* the weighted match score of each industry, in halves, from the taxonomy lists
WeightedMatches(text, industry) ==
    CASE industry = "finance" -> 2 * text["bank"] + 2 * text["rådgivning"] + 3 * text["due diligence"]
      [] industry = "saas" -> 2 * text["plattform"] + 2 * text["digital"]
      [] industry \in {"consulting", "legal"} -> 2 * text["rådgivning"]
      [] industry = "marketing" -> 4 * text["digital"]
      [] OTHER -> 0

\* C21: the confidence is 0.0 exactly when no taxonomy keyword matches the text, and
\* then the result is ("general", 0.0, "Allmänt B2B"); when a keyword matches, the
\* confidence is greater than 0 and at most 1.0 and the returned industry has a
\* maximal weighted match score.
C21_IndustryConfidence ==
    Detected =>
        LET r == result.detected
        IN  /\ (r.confidence = 0) <=> ~AnyKeywordMatches(data)
            /\ ~AnyKeywordMatches(data) =>
                   r = [industry |-> "general", confidence |-> 0, label |-> "Allmänt B2B"]
            /\ AnyKeywordMatches(data) =>
                   /\ r.confidence > 0 /\ r.confidence <= 100
                   /\ \E i \in 1..Len(Industries) : Industries[i] = r.industry
                   /\ \A i \in 1..Len(Industries) :
                          WeightedMatches(data, Industries[i]) <= WeightedMatches(data, r.industry)

\* a text whose only match is a keyword shared by three industries has been
\* classified: the first of them, with the smallest confidence 0.06
C21_Witness ==
    /\ Detected
    /\ data["rådgivning"] = 1 /\ \A kw \in KeywordSample \ {"rådgivning"} : data[kw] = 0
    /\ result.detected.industry = "finance"
    /\ result.detected.confidence = 6

-----------------------------------------------------------------------------
(* Ordering of analyze and enrichment (Spec) *)

\* the scores generate_analysis gives for one of the pages
Structural(report) ==
    \E d \in StorePages :
        /\ ~StoreAnalysis[d].raised
        /\ report.full_report.criteria_analysis = StoreAnalysis[d].criteria_analysis
        /\ report.overall_score = StoreAnalysis[d].overall_score
        /\ report.issues_found = StoreAnalysis[d].issues_found

\* C22: the step that schedules the enrichment task of a report commits the report
\* with ai_generated = false and structural scores together with its seven
\* AnalysisData rows, and answers the caller with that structural overall score and
\* issue count; every later write to a report is made by its pending task on a
\* report that exists, and no task step changes the answer already given.
C22_CommitBeforeEnrichment ==
    [][\A id \in 1..MaxReports :
          /\ ([report_id |-> id] \in tasks' /\ [report_id |-> id] \notin tasks) =>
                 /\ ~reports[id].exists /\ reports'[id].exists
                 /\ ~reports'[id].full_report.ai_generated
                 /\ Structural(reports'[id])
                 /\ Cardinality({r \in rows' : r.report_id = id}) = 7
                 /\ \A r \in rows' :
                        r.report_id = id =>
                            r.score = ScoreOf(reports'[id].full_report.criteria_analysis, r.criterion)
                 /\ response' = [kind |-> "summary", report_id |-> id,
                                 overall_score |-> reports'[id].overall_score,
                                 issues_count |-> reports'[id].issues_found]
          /\ (reports'[id] # reports[id] /\ reports'[id].exists) =>
                 \/ ~reports[id].exists /\ [report_id |-> id] \in tasks' \ tasks
                 \/ /\ reports[id].exists
                    /\ [report_id |-> id] \in tasks \ tasks'
                    /\ response' = response
      ]_vars

\* the caller of the last analyze holds the structural overall score of a report
\* whose enrichment has since been written with another overall score
C22_Witness ==
    /\ response.kind = "summary"
    /\ reports[response.report_id].exists
    /\ reports[response.report_id].full_report.ai_generated
    /\ reports[response.report_id].overall_score # response.overall_score

-----------------------------------------------------------------------------
(* The issue tally against the logical errors (SpecScoring) *)

Listed(errors, message) == \E i \in 1..Len(errors) : errors[i] = message

\* C24 (as stated): every condition that adds to issues_found (mailto links, ungated
\* PDFs, no lead form, no lead magnets, no social proof, no CTAs, no H1) has its
\* entry in logical_errors unless the cap of 5 removed it; so issues_found > 0
\* implies a non-empty logical_errors.
C24_LogicalErrorsCoverIssues ==
    Produced =>
        LET errors == result.analysis.logical_errors
            shown(cond, message) == cond => (Listed(errors, message) \/ Len(errors) = 5)
        IN  /\ shown(data.mailto_links # <<>>, "mailto_links")
            /\ shown(data.ungated_pdfs # <<>>, "ungated_pdfs")
            /\ shown(LeadFormIndexes(data) = {}, "no_lead_forms")
            /\ shown(data.lead_magnets = <<>>, "no_lead_magnets")
            /\ shown(data.social_proof = <<>>, "no_social_proof")
            /\ shown(data.cta_buttons = <<>>, "no_cta_buttons")
            /\ shown(H1Missing(data), "no_h1")
            /\ result.analysis.issues_found > 0 => errors # <<>>

\* What holds: the six conditions other than the missing CTAs are listed unless
\* the cap removed them.
LogicalErrorsCoverIssuesButCtas ==
    Produced =>
        LET errors == result.analysis.logical_errors
            shown(cond, message) == cond => (Listed(errors, message) \/ Len(errors) = 5)
        IN  /\ shown(data.mailto_links # <<>>, "mailto_links")
            /\ shown(data.ungated_pdfs # <<>>, "ungated_pdfs")
            /\ shown(LeadFormIndexes(data) = {}, "no_lead_forms")
            /\ shown(data.lead_magnets = <<>>, "no_lead_magnets")
            /\ shown(data.social_proof = <<>>, "no_social_proof")
            /\ shown(H1Missing(data), "no_h1")

-----------------------------------------------------------------------------
(* The summary assessment (SpecScoring) *)

\* C26 (as stated): generate_summary_assessment returns exactly 8 lines on every
\* extracted-data input, whatever lead magnets, ungated PDFs, mailto links, forms
\* and social proof are present.
C26_SummaryHasEightLines ==
    Produced => Len(result.summary_assessment) = 8

\* What holds: 8 lines without lead magnets or with ungated PDFs, 7 lines otherwise.
SummaryHasSevenOrEightLines ==
    Produced =>
        Len(result.summary_assessment) =
            (IF data.lead_magnets = <<>> \/ data.ungated_pdfs # <<>> THEN 8 ELSE 7)

-----------------------------------------------------------------------------
(* The two stores of criterion scores (Spec) *)

\* C28 (as stated): in every reachable state, for every report and every criterion,
\* the score of the report's analysis_data row equals the score of the same criterion
\* in the report's full_report criteria_analysis, also after the enrichment task has
\* applied adjusted scores.
C28_RowScoresMatchFullReport ==
    \A id \in 1..MaxReports :
        reports[id].exists =>
            \A i \in 1..Len(reports[id].full_report.criteria_analysis) :
                LET c == reports[id].full_report.criteria_analysis[i]
                IN  \A r \in rows :
                        (r.report_id = id /\ r.criterion = c.criterion) => r.score = c.score

\* What holds: the rows agree with full_report until the task has applied a score.
RowScoresMatchUntilEnriched ==
    \A id \in 1..MaxReports :
        (reports[id].exists /\ ~reports[id].full_report.ai_generated) =>
            \A i \in 1..Len(reports[id].full_report.criteria_analysis) :
                LET c == reports[id].full_report.criteria_analysis[i]
                IN  \A r \in rows :
                        (r.report_id = id /\ r.criterion = c.criterion) => r.score = c.score

-----------------------------------------------------------------------------
(* Lead magnets and ungated PDFs of one page (SpecExtract) *)

\* the absolute URLs of the links whose lowered href contains ".pdf"
PdfLinkUrls == {"https://example.se/guide.pdf", "https://example.se/sida/Prislista.PDF?v=2"}

\* the lead magnet m and the ungated PDF u were extracted from the same link
SameLink(m, u) == m.url = u.url /\ m.text = u.text

\* C29: every ungated_pdfs entry has a lead_magnets entry of the same link with type
\* "pdf" and is_gated false; every lead magnet of a link whose href contains ".pdf"
\* with is_gated false is in ungated_pdfs, in the same order; so a non-empty
\* ungated_pdfs comes with a non-empty lead_magnets.
C29_UngatedPdfsAreLeadMagnets ==
    result.kind = "extracted" =>
        LET lm == result.lead_magnets
            up == result.ungated_pdfs
            open == SelectSeq(lm, LAMBDA m : m.url \in PdfLinkUrls /\ ~m.is_gated)
        IN  /\ \A j \in 1..Len(up) :
                  \E k \in 1..Len(lm) :
                      SameLink(lm[k], up[j]) /\ lm[k].type = "pdf" /\ ~lm[k].is_gated
            /\ Len(open) = Len(up)
            /\ \A j \in 1..Len(up) : SameLink(open[j], up[j])
            /\ up # <<>> => lm # <<>>

\* a page with two ungated PDF links and a plain link between them
C29_Witness ==
    /\ result.kind = "extracted"
    /\ Len(result.ungated_pdfs) = 2
    /\ Len(result.lead_magnets) = 2
    /\ Len(page.anchors) = 3

\* a link whose text names a PDF but whose href is no PDF is a lead magnet of type
\* "pdf" that is no ungated PDF
PdfByTextOnly ==
    /\ result.kind = "extracted"
    /\ result.ungated_pdfs = <<>>
    /\ Len(result.lead_magnets) = 1
    /\ result.lead_magnets[1].type = "pdf"
    /\ ~result.lead_magnets[1].is_gated

-----------------------------------------------------------------------------
(* Completion of the enrichment (SpecFair) *)

Enriched(id) == reports[id].exists /\ reports[id].full_report.ai_generated

\* once ai_generated is true it is not false in the same report again
AiGeneratedNeverReset ==
    [][\A id \in 1..MaxReports :
          (Enriched(id) /\ reports'[id].exists) => reports'[id].full_report.ai_generated
      ]_vars

\* C25 (as stated): every report a successful analyze created, when its background
\* task is run and the report still exists, eventually has ai_generated = true with
\* narrative sections written, and once ai_generated is true it never becomes false.
C25_EnrichmentCompletes ==
    /\ \A id \in 1..MaxReports :
          []([report_id |-> id] \in tasks =>
                <>(~reports[id].exists
                   \/ (Enriched(id) /\ reports[id].full_report.narrative # "")))
    /\ AiGeneratedNeverReset

\* What holds: a scheduled task is eventually run, and it leaves the report enriched,
\* deleted, or untouched with the failure printed.
TaskEventuallyEnds ==
    \A id \in 1..MaxReports :
        []([report_id |-> id] \in tasks =>
              <>(~reports[id].exists \/ Enriched(id) \/ Done(id, "failed")))

-----------------------------------------------------------------------------
(* Access to a report (SpecAccess) *)

\* the request presents the current token of an existing report within 72 hours of
\* the report's creation
Allowed(id, token) ==
    /\ reports[id].exists
    /\ token \notin {None, ""}
    /\ token = reports[id].access_token
    /\ now <= reports[id].created_at + 72

\* what a request for report id with the token is answered after the checks
AccessChecked(id, token) ==
    LET answer == verify_access(id, token)
        granted == answer.status_code = 200
    IN  /\ granted <=> Allowed(id, token)
        /\ granted => answer.report_id = id
        /\ ~granted => answer.status_code \in {403, 404}
        /\ answer.status_code = 404 <=> ~reports[id].exists
        /\ (reports[id].exists /\ reports[id].access_token = None) =>
               answer.status_code = 403

\* C23: get_full_report and download_report_pdf return content only for a non-empty
\* token equal to the report's current access_token presented no later than 72 hours
\* after created_at; a report without a lead (access_token null) is returned for no
\* token value; an unknown report id yields 404.
C23_ReportAccessControl ==
    /\ \A id \in 1..MaxReports, token \in TokenSamples : AccessChecked(id, token)
    /\ response.kind \in {"report", "pdf"} =>
          /\ response.status_code = 200
          /\ reports[response.report_id].exists
          /\ reports[response.report_id].access_token # None
          /\ now >= reports[response.report_id].created_at

\* the content of a report created at hour 0 has been handed out and the clock reads
\* 72, the last hour of its access; a second report has no token
C23_Witness ==
    \E id, other \in 1..MaxReports :
        /\ response.kind = "report"
        /\ response.report_id = id
        /\ reports[id].created_at = 0
        /\ now = 72
        /\ reports[other].exists
        /\ reports[other].access_token = None

\* no request made exactly 72 hours after the creation is served (this is violated:
\* the expiry test is a strict comparison)
NeverServedAtTheLastHour ==
    [][\A id \in 1..MaxReports, token \in TokenSamples :
          (download_report_pdf(id, token) /\ response'.status_code = 200) =>
              now < reports[id].created_at + REPORT_ACCESS_TOKEN_EXPIRE_HOURS
      ]_vars

\* a request was refused because the 72 hours had passed
RefusedAfterExpiry == response = Forbidden("expired") /\ now = 73

-----------------------------------------------------------------------------
(* Rotation of the access token (SpecAccess) *)

\* the tokens token_urlsafe has returned so far
IssuedTokens == {ToString(i) : i \in 1..issued}

\* the tokens that open report id now
Opening(id) == {token \in TokenSamples : verify_access(id, token).status_code = 200}

\* C30: a successful create_lead replaces the report's access_token by a token never
\* issued before and its lead_id by the lead of the email, so that at most one token,
\* the one issued last for the report, opens it and every token issued earlier is
\* refused with 403; create_lead for a report that does not exist answers 404 and
\* changes nothing.
C30_TokenRotation ==
    /\ [](\A id \in 1..MaxReports :
             /\ Cardinality(Opening(id)) <= 1
             /\ \A token \in Opening(id) : token = reports[id].access_token)
    /\ [][\A id \in 1..MaxReports, email \in LeadEmails :
             \* a create_lead step has issued a token or answered 404
             ((issued' # issued \/ response' = NotFound) /\ create_lead(id, email)) =>
                 IF ~reports[id].exists
                 THEN /\ response'.status_code = 404
                      /\ UNCHANGED <<reports, rows, leads, issued, tasks>>
                 ELSE /\ response'.status_code = 200
                      /\ response'.access_token \notin IssuedTokens \cup {None, ""}
                      /\ reports'[id].access_token = response'.access_token
                      /\ reports'[id].lead_id = response'.lead_id
                      /\ leads'[response'.lead_id].email = email
                      /\ \A token \in IssuedTokens :
                            (verify_access(id, token).status_code = 403)'
                      /\ \A other \in 1..MaxReports \ {id} : reports'[other] = reports[other]
         ]_vars

\* a report whose token was replaced twice, by leads of two addresses, and a request
\* that was refused
C30_Witness ==
    \E id \in 1..MaxReports :
        /\ reports[id].exists
        /\ issued = 3
        /\ reports[id].access_token = "3"
        /\ reports[id].lead_id = 2
        /\ Len(leads) = 2
        /\ response = Forbidden("denied")

-----------------------------------------------------------------------------
(* What the background task writes (SpecEnrich) *)

\* the columns of a Report row other than full_report and overall_score, and the
\* scraped_data kept inside full_report
Untouched(report) ==
    IF ~report.exists THEN <<>>
    ELSE <<report.access_token, report.lead_id, report.issues_found, report.url,
           report.short_summary, report.created_at, report.full_report.scraped_data>>

\* C27: the enrichment task of report R writes only R's full_report and overall_score:
\* access_token, lead_id, issues_found, url, short_summary and the scraped_data inside
\* full_report stay as they are, as do every other report and every lead, whatever
\* create_lead calls, reads and analyses ran between the task's query and its commit.
C27_TaskWritesOnlyItsColumns ==
    [][/\ \A l \in loaded :
             loaded' = loaded \ {l} =>
                 /\ Untouched(reports'[l.report_id]) = Untouched(reports[l.report_id])
                 /\ reports'[l.report_id].exists = reports[l.report_id].exists
                 /\ \A other \in 1..MaxReports \ {l.report_id} :
                       reports'[other] = reports[other]
                 /\ leads' = leads
       /\ \A t \in tasks :
             tasks' = tasks \ {t} => (reports' = reports /\ leads' = leads)
      ]_vars

\* a task has committed the adjusted scores of a report that keeps the token and the
\* lead a create_lead gave it, next to a second report
C27_Witness ==
    \E id, other \in 1..MaxReports :
        /\ id # other
        /\ Done(id, "complete")
        /\ reports[id].full_report.ai_generated
        /\ reports[id].full_report.overall_score # {}
        /\ reports[id].access_token # None
        /\ reports[id].lead_id = 1
        /\ reports[other].exists

\* a create_lead ran between the query and the commit of a task: the row the task's
\* session holds has no token, the stored row has one
LeadBetweenQueryAndCommit ==
    \E l \in loaded :
        /\ l.report.access_token = None
        /\ reports[l.report_id].access_token # None

====
